---- MODULE Spec2Model ----
(***************************************************************************)
(* Model of the video-translator orchestration core:                       *)
(*   - translationWorkflow (orchestrator/workflows/translation.workflow.ts)*)
(*     executed by the Temporal engine: the workflow code runs in workflow *)
(*     tasks, each activity result is recorded in the run's event history, *)
(*     a restarted worker re-executes the workflow function from its first *)
(*     line against that history;                                          *)
(*   - the activities (orchestrator/activities/translation.activities.ts), *)
(*     with transcribeAudio's retryWithBackoff loop modelled call by call; *)
(*   - the files the activities write under TEMP_DIR and the run's output  *)
(*     directory, and the tempFilesCreated list the cleanup works from;    *)
(*   - TemporalClientService.getWorkflowStatus / queryWorkflowProgress and *)
(*     TranslatorService.getTranslationStatus;                             *)
(*   - two runs sharing one worker process (TempSpec) and an activity      *)
(*     attempt that reports back after its timeout (ReportSpec);           *)
(*   - the HTTP front end (ApiSpec): ValidationPipe, TranslatorController, *)
(*     TranslatorService.startTranslation, startTranslationWorkflow with   *)
(*     extractBaseName, and HttpExceptionFilter (FilterSpec);              *)
(*   - generateSubtitles with formatTime (SubtitleSpec);                   *)
(*   - retryWithBackoff with its options and delays (BackoffSpec);         *)
(*   - the temp files as paths: processMediaInput, extractAudio's tracking *)
(*     and cleanupTempFiles (PathSpec);                                    *)
(*   - TemporalClientService.onModuleInit and getClient (ServiceSpec);     *)
(*   - the CLI's waitForCompletion loop beside the run (WaitSpec).         *)
(***************************************************************************)
EXTENDS Integers, Sequences, FiniteSets, TLC

\* ------------------------------------------------------------------ bounds
MaxCrashes == 1     \* worker crashes in one behaviour
MaxFaults == 3      \* failing operations (API calls, ffmpeg runs, timeouts, worker crashes) in one behaviour
MaxSegments == 2    \* segments of one transcription, and of one GPT answer

\* ------------------------------------------------- program constants
maximumAttempts == 3          \* proxyActivities retry policy
retryAttempts == 3            \* retryWithBackoff attempts of transcribeAudio

\* Activities in the order the workflow calls them.
extractAudio == 1
transcribeAudio == 2
translateText == 3
generateSummary == 4
generateSubtitles == 5
generateOutputVideo == 6
saveWorkflowArtifacts == 7
cleanupTempFilesActivity == 8

Stages == 1..7
Activities == 1..8

None == [att |-> 0, try |-> 0, video |-> FALSE]
NoError == "none"

VARIABLES
    input,        \* TranslationWorkflowInput: generateVideo option, media kind
    wfStatus,     \* workflow execution status held by the Temporal server
    recorded,     \* event history: result recorded for each completed activity
    actFailed,    \* event history: activity whose terminal failure is recorded (0: none)
    scheduled,    \* activities scheduled by the workflow and not yet closed
    args,         \* arguments each activity was scheduled with
    attempt,      \* attempt number of each scheduled activity (retry policy)
    calls,        \* number of times each activity function has been invoked
    running,      \* activity attempts executing on the worker
    apiLog,       \* outcomes of the Whisper calls of the current transcribeAudio attempt
    log,          \* per activity: outcomes of its failed attempts so far; <<"ok">> once it returned
    workerUp,     \* the worker process is alive
    wfLoaded,     \* the worker holds the workflow's in-memory state
    pendingTask,  \* a workflow task is waiting (new history event to process)
    pc,           \* activity the workflow function is awaiting; 0 start, 9 returned, 10 thrown
    progress,     \* the workflow's `progress` variable (getProgress query state)
    result,       \* TranslationWorkflowResult returned by the workflow
    crashes,      \* number of worker crashes so far
    faults,       \* number of failed operations (worker crashes included) so far
    lastSnap,     \* snapshot returned by the latest queryWorkflowProgress call
    cancelAt,     \* activity that was pending when cancellation was requested (0: no request)
    files,        \* the file system: files under TEMP_DIR and under the run's output directory
    tempFilesCreated,  \* the activities module's list of temp files to clean up (worker memory)
    reply,        \* what the latest getTranslationStatus / queryWorkflowProgress call of a client returned
    request,      \* the HTTP request the service is handling, or the call under study
    response,     \* the HTTP responses sent for it, or what the call returned
    runs,         \* the workflows started at the Temporal server, by workflow ID
    stale         \* a timed-out activity attempt whose function is still executing

vars == <<input, wfStatus, recorded, actFailed, scheduled, args, attempt, calls,
          running, apiLog, log, workerUp, wfLoaded, pendingTask, pc, progress,
          result, crashes, faults, lastSnap, cancelAt, files, tempFilesCreated, reply,
          request, response, runs, stale>>

\* the variables the workflow and the engine do not touch
fsVars == <<files, tempFilesCreated>>
clientVars == <<lastSnap, reply>>

\* the variables of the HTTP front end and of the scenarios with several runs
\* or attempts, which a single run of the workflow leaves alone
otherVars == <<request, response, runs, stale>>

\* ------------------------------------------------------------ helpers
Payload(a, t) == [att |-> calls[a], try |-> t, video |-> (a = extractAudio /\ input.media = "video")]

\* ------------------------------------------ translation.workflow.ts
\* const totalSteps = generateVideo ? 7 : 6
totalSteps == IF input.generateVideo THEN 7 ELSE 6

\* let progress = { currentStep: 0, totalSteps, stepName: "Starting", ... }
InitProgress ==
    [currentStep |-> 0, totalSteps |-> totalSteps, stepName |-> "Starting",
     percentComplete |-> 0, status |-> "running", error |-> NoError]

\* progress = { ...progress, currentStep, stepName, percentComplete } before each await
StepUpdate(k, prog) ==
    CASE k = extractAudio ->
           [prog EXCEPT !.currentStep = 1, !.stepName = "Extracting audio from video", !.percentComplete = 5]
      [] k = transcribeAudio ->
           [prog EXCEPT !.currentStep = 2, !.stepName = "Transcribing audio (Whisper)", !.percentComplete = 20]
      [] k = translateText ->
           [prog EXCEPT !.currentStep = 3, !.stepName = "Translating text (GPT-4)", !.percentComplete = 40]
      [] k = generateSummary ->
           [prog EXCEPT !.currentStep = 4, !.stepName = "Generating summary", !.percentComplete = 55]
      [] k = generateSubtitles ->
           [prog EXCEPT !.currentStep = 5, !.stepName = "Generating subtitles", !.percentComplete = 70]
      [] k = generateOutputVideo ->
           [prog EXCEPT !.currentStep = 6, !.stepName = "Generating output video with subtitles", !.percentComplete = 85]
      [] k = saveWorkflowArtifacts ->
           [prog EXCEPT !.currentStep = IF input.generateVideo THEN 7 ELSE 6,
                        !.stepName = "Saving workflow artifacts", !.percentComplete = 95]
      [] OTHER -> prog    \* cleanupTempFilesActivity: no progress update

\* Faulty variant: the generateVideo option is not looked at
RunsVideoStepIgnoresOption == recorded[extractAudio].video

\* if (generateVideo && originalVideoPath) { ... generateOutputVideo ... }
RunsVideoStep == input.generateVideo /\ recorded[extractAudio].video

\* Results of earlier activities each activity call takes as arguments.
Deps(k) ==
    CASE k = translateText -> {transcribeAudio}
      [] k = generateSummary -> {translateText}
      [] k = generateSubtitles -> {transcribeAudio, translateText}
      [] k = generateOutputVideo -> {extractAudio, generateSubtitles}
      [] k = saveWorkflowArtifacts ->
           {transcribeAudio, translateText, generateSummary, generateSubtitles, generateOutputVideo}
      [] OTHER -> {}

ArgsOf(k) == [d \in Deps(k) |-> recorded[d]]

NoArgs == <<>>

NoResult ==
    [success |-> FALSE, transcription |-> None, translation |-> None, summary |-> None,
     keyPoints |-> None, subtitlesPath |-> None, outputVideoPath |-> None, artifactsDir |-> None]

\* return { success: true, transcription: transcription.text, ... }
WorkflowResult ==
    [success |-> TRUE,
     transcription |-> recorded[transcribeAudio],
     translation |-> recorded[translateText],
     summary |-> recorded[generateSummary],
     keyPoints |-> recorded[generateSummary],
     subtitlesPath |-> recorded[generateSubtitles],
     outputVideoPath |-> recorded[generateOutputVideo],
     artifactsDir |-> recorded[saveWorkflowArtifacts]]

\* Faulty variant: the final progress update is missing
ReturnKeepsProgress(prog) ==
    [pc |-> 9, status |-> "COMPLETED", sched |-> {}, progress |-> prog, result |-> WorkflowResult]

\* Faulty variant: the final progress update names step 7 whatever totalSteps is
ReturnStepSeven(prog) ==
    [pc |-> 9, status |-> "COMPLETED", sched |-> {},
     progress |-> [currentStep |-> 7, totalSteps |-> totalSteps, stepName |-> "Completed",
                   percentComplete |-> 100, status |-> "completed", error |-> NoError],
     result |-> WorkflowResult]

\* progress = { currentStep: totalSteps, ..., percentComplete: 100, status: "completed" }; return
Return(prog) ==
    [pc |-> 9, status |-> "COMPLETED", sched |-> {},
     progress |-> [currentStep |-> totalSteps, totalSteps |-> totalSteps, stepName |-> "Completed",
                   percentComplete |-> 100, status |-> "completed", error |-> NoError],
     result |-> WorkflowResult]

\* Faulty variant: the catch block does not rethrow: the workflow function returns
CatchWithoutRethrow(k, prog) ==
    [pc |-> 9, status |-> "COMPLETED", sched |-> {},
     progress |-> [prog EXCEPT !.status = "failed", !.error = "Activity task failed"],
     result |-> NoResult]

\* catch (error) { progress = { ...progress, status: "failed", error }; throw error }
Catch(k, prog) ==
    [pc |-> 10, status |-> "FAILED", sched |-> {},
     progress |-> [prog EXCEPT !.status = "failed", !.error = "Activity task failed"],
     result |-> NoResult]

\* Faulty variant: generateSummary is not awaited before generateSubtitles is called
BlockedWithoutAwait(k, prog) ==
    [pc |-> k, status |-> "RUNNING",
     sched |-> IF k = generateSummary THEN {generateSummary, generateSubtitles} ELSE {k},
     progress |-> prog, result |-> NoResult]

\* the workflow function is suspended in `await activity(...)`
Blocked(k, prog) ==
    [pc |-> k, status |-> "RUNNING", sched |-> {k}, progress |-> prog, result |-> NoResult]

\* A cancellation request reached the workflow while it awaited activity k:
\* the await throws CancelledFailure, the catch block rethrows it and the
\* run closes CANCELLED.
Cancelled(k, prog) ==
    [pc |-> 10, status |-> "CANCELLED", sched |-> {},
     progress |-> [prog EXCEPT !.status = "failed", !.error = "Workflow cancelled"],
     result |-> NoResult]

RECURSIVE Await(_, _), Begin(_, _)

\* Faulty variant: results are kept in worker memory only: a re-execution does not
\* find them and calls the activity again
AwaitWithoutHistory(k, prog) ==
    IF cancelAt = k THEN Cancelled(k, prog)
    ELSE IF recorded[k] # None /\ wfLoaded
      THEN IF k = cleanupTempFilesActivity THEN Return(prog) ELSE Begin(k + 1, prog)
      ELSE IF actFailed = k THEN Catch(k, prog) ELSE Blocked(k, prog)

\* Faulty variant: a failed activity is treated like a completed one
AwaitSwallowsFailure(k, prog) ==
    IF cancelAt = k THEN Cancelled(k, prog)
    ELSE IF recorded[k] # None \/ actFailed = k
      THEN IF k = cleanupTempFilesActivity THEN Return(prog) ELSE Begin(k + 1, prog)
      ELSE Blocked(k, prog)

\* `await activity_k(...)`: resolved from the event history when the
\* activity's result (or terminal failure) is recorded there.
Await(k, prog) ==
    IF cancelAt = k THEN Cancelled(k, prog)
    ELSE IF recorded[k] # None
      THEN IF k = cleanupTempFilesActivity THEN Return(prog) ELSE Begin(k + 1, prog)
      ELSE IF actFailed = k THEN Catch(k, prog) ELSE Blocked(k, prog)

\* Faulty variant: the progress is set to the step after the one about to be awaited
BeginPublishesNext(k, prog) ==
    IF k = generateOutputVideo /\ ~RunsVideoStep
      THEN Begin(saveWorkflowArtifacts, prog)
      ELSE Await(k, StepUpdate(IF k < saveWorkflowArtifacts THEN k + 1 ELSE k, prog))

\* the statements of step k up to its await
Begin(k, prog) ==
    IF k = generateOutputVideo /\ ~RunsVideoStep
      THEN Begin(saveWorkflowArtifacts, prog)
      ELSE Await(k, StepUpdate(k, prog))

\* Faulty variant: closing the run leaves its pending activity on the task queue
ApplyKeepsActivities(r) ==
    LET newly == r.sched \ scheduled IN
    /\ pc' = r.pc
    /\ progress' = r.progress
    /\ wfStatus' = r.status
    /\ result' = r.result
    /\ scheduled' = scheduled \cup r.sched
    /\ running' = running
    /\ args' = [a \in Activities |-> IF a \in newly THEN ArgsOf(a) ELSE args[a]]
    /\ attempt' = [a \in Activities |-> IF a \in newly THEN 0 ELSE attempt[a]]
    /\ wfLoaded' = TRUE
    /\ pendingTask' = FALSE

\* Effect of one workflow task on the workflow and the server.  When the
\* run closes, the server drops its pending activity: a later report of that
\* attempt is not accepted.
Apply(r) ==
    LET newly == r.sched \ scheduled IN
    /\ pc' = r.pc
    /\ progress' = r.progress
    /\ wfStatus' = r.status
    /\ result' = r.result
    /\ scheduled' = IF r.status = "RUNNING" THEN scheduled \cup r.sched ELSE {}
    /\ running' = IF r.status = "RUNNING" THEN running ELSE {}
    /\ args' = [a \in Activities |-> IF a \in newly THEN ArgsOf(a) ELSE args[a]]
    /\ attempt' = [a \in Activities |-> IF a \in newly THEN 0 ELSE attempt[a]]
    /\ wfLoaded' = TRUE
    /\ pendingTask' = FALSE

\* translationWorkflow executed from its first line: the first workflow task
\* of the run, or the replay a worker does after it lost the workflow's state.
RunWorkflow ==
    /\ workerUp /\ ~wfLoaded
    /\ Apply(Begin(extractAudio, InitProgress))
    /\ UNCHANGED <<input, recorded, actFailed, calls, apiLog, log, workerUp,
                   crashes, faults, cancelAt, fsVars, clientVars, otherVars>>

\* translationWorkflow resumed at the await it is suspended in.
ContinueWorkflow ==
    /\ workerUp /\ wfLoaded /\ pendingTask /\ wfStatus = "RUNNING"
    /\ Apply(Await(pc, progress))
    /\ UNCHANGED <<input, recorded, actFailed, calls, apiLog, log, workerUp,
                   crashes, faults, cancelAt, fsVars, clientVars, otherVars>>


\* ------------------------------------------------ activity execution
\* The worker picks up a scheduled activity and invokes its function.
\* retry: { maximumAttempts: 3 }
StartAttempt(a) ==
    /\ workerUp /\ a \in scheduled /\ a \notin running
    /\ attempt[a] < maximumAttempts
    /\ running' = running \cup {a}
    /\ attempt' = [attempt EXCEPT ![a] = @ + 1]
    /\ calls' = [calls EXCEPT ![a] = @ + 1]
    /\ apiLog' = IF a = transcribeAudio THEN <<>> ELSE apiLog
    /\ UNCHANGED <<input, wfStatus, recorded, actFailed, scheduled, args, log, workerUp,
                   wfLoaded, pendingTask, pc, progress, result, crashes, faults, cancelAt,
                   fsVars, clientVars, otherVars>>

\* The activity function returned: the engine records the result.
ActivityReturns(a, payload) ==
    /\ recorded' = [recorded EXCEPT ![a] = payload]
    /\ running' = running \ {a}
    /\ scheduled' = scheduled \ {a}
    /\ log' = [log EXCEPT ![a] = <<"ok">>]
    /\ pendingTask' = TRUE
    /\ UNCHANGED <<actFailed>>

\* Faulty variant: maximumAttempts counted as retries after the first attempt
ActivityThrowsOffByOne(a, kind) ==
    /\ running' = running \ {a}
    /\ log' = [log EXCEPT ![a] = Append(@, kind)]
    /\ IF attempt[a] > maximumAttempts
         THEN /\ actFailed' = a
              /\ scheduled' = scheduled \ {a}
              /\ pendingTask' = TRUE
         ELSE UNCHANGED <<actFailed, scheduled, pendingTask>>
    /\ UNCHANGED <<recorded>>

\* The activity function threw (or its attempt timed out): the engine
\* retries it until maximumAttempts attempts were made, whatever the error;
\* then the failure is recorded and delivered to the workflow.
ActivityThrows(a, kind) ==
    /\ running' = running \ {a}
    /\ log' = [log EXCEPT ![a] = Append(@, kind)]
    /\ IF attempt[a] >= maximumAttempts
         THEN /\ actFailed' = a
              /\ scheduled' = scheduled \ {a}
              /\ pendingTask' = TRUE
         ELSE UNCHANGED <<actFailed, scheduled, pendingTask>>
    /\ UNCHANGED <<recorded>>

\* Does an error of the activity's underlying operation leave the activity
\* function?  extractAudio falls back to the original input unless it is a
\* video file; cleanupTempFilesActivity catches everything.
Propagates(a) ==
    CASE a = extractAudio -> input.media = "video"
      [] a = cleanupTempFilesActivity -> FALSE
      [] OTHER -> TRUE

\* ---------------------------------------------------------------- files
\* A path: its directory (TEMP_DIR "/tmp/video-translator", or the run's
\* output directory "/output/video-translator/{workflowId}"), its name, and
\* the unique part of the name (uuid or Date.now() of the invocation that
\* made it; 0 for a fixed name).
File(dir, name, stamp) == [dir |-> dir, name |-> name, stamp |-> stamp]

\* Faulty variant: the artifacts are named after the time of the invocation,
\* as generateSubtitles names its files
WritesTimestamped(a, n) ==
    CASE a = extractAudio ->
           IF input.media = "video" THEN <<File("tmp", "audio.mp3", n)>> ELSE <<>>
      [] a = generateSubtitles ->
           <<File("tmp", "subtitles.srt", n), File("tmp", "subtitles.vtt", n)>>
      [] a = generateOutputVideo -> <<File("output", "translated_video.mp4", 0)>>
      [] a = saveWorkflowArtifacts ->
           <<File("output", "subtitles.srt", n), File("output", "subtitles.vtt", n),
             File("output", "metadata.json", n), File("output", "transcription.txt", n),
             File("output", "translation.txt", n)>>
      [] OTHER -> <<>>

\* The files the n-th invocation of activity a writes, in the order it writes them.
Writes(a, n) ==
    CASE a = extractAudio ->          \* processMediaInput: audio-${uuidv4()}.mp3
           IF input.media = "video" THEN <<File("tmp", "audio.mp3", n)>> ELSE <<>>
      [] a = generateSubtitles ->     \* subtitles-${Date.now()}.srt / .vtt
           <<File("tmp", "subtitles.srt", n), File("tmp", "subtitles.vtt", n)>>
      [] a = generateOutputVideo -> <<File("output", "translated_video.mp4", 0)>>
      [] a = saveWorkflowArtifacts ->
           <<File("output", "subtitles.srt", 0), File("output", "subtitles.vtt", 0),
             File("output", "metadata.json", 0), File("output", "transcription.txt", 0),
             File("output", "translation.txt", 0)>>
      [] OTHER -> <<>>

\* cleanupTempFiles(list): unlink every listed file that lies under TEMP_DIR
cleanupTempFiles(list) == files \ {f \in list : f.dir = "tmp"}

\* What an invocation of activity a does to the file system and to
\* tempFilesCreated: it wrote the first n of its files; `ok`: it ran to its
\* end (for the cleanup: the unlink calls did not fail).
SideEffects(a, n, ok) ==
    LET written == {Writes(a, calls[a])[i] : i \in 1..n} IN
    IF a = cleanupTempFilesActivity
      THEN /\ files' = IF ok THEN cleanupTempFiles(tempFilesCreated) ELSE files
           /\ tempFilesCreated' = {}       \* tempFilesCreated.length = 0
      ELSE /\ files' = files \cup written
           /\ tempFilesCreated' =
                 IF ok /\ a \in {extractAudio, generateSubtitles}
                   THEN tempFilesCreated \cup {f \in written : f.dir = "tmp"}
                   ELSE tempFilesCreated

\* How many of its files an invocation may have written when its operation fails.
PartialWrites(a) ==
    IF a = saveWorkflowArtifacts THEN 0..(Len(Writes(a, calls[a])) - 1) ELSE {0}

\* An activity other than transcribeAudio: its operation succeeds.
Succeed(a) ==
    /\ a \in running /\ a # transcribeAudio
    /\ ActivityReturns(a, Payload(a, 0))
    /\ SideEffects(a, Len(Writes(a, calls[a])), TRUE)
    /\ UNCHANGED <<input, wfStatus, args, attempt, calls, apiLog, workerUp, wfLoaded,
                   pc, progress, result, crashes, faults, cancelAt, clientVars, otherVars>>

\* An activity other than transcribeAudio: its operation fails.
Fail(a, kind) ==
    /\ a \in running /\ a # transcribeAudio
    /\ faults < MaxFaults
    /\ faults' = faults + 1
    /\ IF Propagates(a)
         THEN ActivityThrows(a, kind)
         ELSE ActivityReturns(a, [Payload(a, 0) EXCEPT !.video = FALSE])
    /\ \E n \in PartialWrites(a) : SideEffects(a, n, FALSE)
    /\ UNCHANGED <<input, wfStatus, args, attempt, calls, apiLog, workerUp, wfLoaded,
                   pc, progress, result, crashes, cancelAt, clientVars, otherVars>>

\* startToCloseTimeout: "10 minutes": an attempt does not report back in
\* time (a long ffmpeg run, a hung API call or unlink).  `done`: the
\* function had already done its work when the attempt was given up.
Timeout(a, done) ==
    /\ a \in running
    /\ faults < MaxFaults
    /\ faults' = faults + 1
    /\ ActivityThrows(a, "timeout")
    /\ IF done /\ a # transcribeAudio
         THEN SideEffects(a, Len(Writes(a, calls[a])), TRUE)
         ELSE UNCHANGED fsVars
    /\ UNCHANGED <<input, wfStatus, args, attempt, calls, apiLog, workerUp, wfLoaded,
                   pc, progress, result, crashes, cancelAt, clientVars, otherVars>>

\* transcribeAudio: if (!fs.existsSync(audioPath)) throw new Error("Audio file not found")
AudioFileMissing ==
    /\ transcribeAudio \in running /\ apiLog = <<>>
    /\ faults < MaxFaults
    /\ faults' = faults + 1
    /\ ActivityThrows(transcribeAudio, "permanent")
    /\ UNCHANGED <<input, wfStatus, args, attempt, calls, apiLog, workerUp, wfLoaded,
                   pc, progress, result, crashes, cancelAt, fsVars, clientVars, otherVars>>

\* Faulty variant: the connection-error test is inverted
retryWithBackoffInverted(i, o) ==
    IF o = "ok" THEN "return"
    ELSE IF i = retryAttempts - 1 THEN "throw"
    ELSE IF o \in {"ECONNRESET", "ETIMEDOUT", "ENOTFOUND"} THEN "throw"
    ELSE "retry"

\* retryWithBackoff: what the loop does after call number i (0-based) ended with outcome o
retryWithBackoff(i, o) ==
    IF o = "ok" THEN "return"
    ELSE IF i = retryAttempts - 1 THEN "throw"                      \* isLastAttempt
    ELSE IF o \notin {"ECONNRESET", "ETIMEDOUT", "ENOTFOUND"} /\ o = "4xx" THEN "throw"
    ELSE "retry"

ErrorKind(o) == IF o = "4xx" THEN "permanent" ELSE "transient"

ApiOutcomes == {"ok", "ECONNRESET", "4xx", "5xx"}

\* transcribeAudio: one openai.audio.transcriptions.create call inside retryWithBackoff
WhisperCall(o) ==
    /\ transcribeAudio \in running
    /\ LET i == Len(apiLog)
           d == retryWithBackoff(i, o) IN
       /\ i < retryAttempts
       /\ o # "ok" => faults < MaxFaults
       /\ faults' = IF o = "ok" THEN faults ELSE faults + 1
       /\ apiLog' = Append(apiLog, o)
       /\ CASE d = "return" -> ActivityReturns(transcribeAudio, Payload(transcribeAudio, i + 1))
            [] d = "throw" -> ActivityThrows(transcribeAudio, ErrorKind(o))
            [] OTHER -> UNCHANGED <<recorded, running, scheduled, log, pendingTask, actFailed>>
    /\ UNCHANGED <<input, wfStatus, args, attempt, calls, workerUp, wfLoaded,
                   pc, progress, result, crashes, cancelAt, fsVars, clientVars, otherVars>>

\* ------------------------------------------------------ worker process
\* The worker process dies: the workflow's in-memory state is gone and the
\* attempt it was executing never reports back (startToCloseTimeout expires).
Crash ==
    /\ workerUp /\ crashes < MaxCrashes
    /\ workerUp' = FALSE
    /\ wfLoaded' = FALSE
    /\ crashes' = crashes + 1
    /\ faults < MaxFaults
    /\ faults' = faults + 1
    /\ IF running = {}
         THEN UNCHANGED <<running, log, actFailed, scheduled, pendingTask, recorded>>
         ELSE LET a == CHOOSE x \in running : TRUE IN
              ActivityThrows(a, "timeout")
    /\ tempFilesCreated' = {}
    /\ UNCHANGED <<input, wfStatus, args, attempt, calls, apiLog, pc, progress, result,
                   cancelAt, files, clientVars, otherVars>>

Restart ==
    /\ ~workerUp
    /\ workerUp' = TRUE
    /\ UNCHANGED <<input, wfStatus, recorded, actFailed, scheduled, args, attempt, calls,
                   running, apiLog, log, wfLoaded, pendingTask, pc, progress, result,
                   crashes, faults, cancelAt, fsVars, clientVars, otherVars>>

\* A cancellation of the run is requested (Temporal CLI / UI; the service
\* itself offers no cancel operation) while an activity is pending.  The
\* activities neither heartbeat nor look at a cancellation signal, so the
\* running attempt is not told; the request is delivered to the workflow
\* with its next workflow task.
RequestCancel ==
    /\ wfStatus = "RUNNING" /\ cancelAt = 0
    /\ scheduled # {}
    /\ cancelAt' = CHOOSE a \in scheduled : TRUE
    /\ pendingTask' = TRUE
    /\ UNCHANGED <<input, wfStatus, recorded, actFailed, scheduled, args, attempt, calls,
                   running, apiLog, log, workerUp, wfLoaded, pc, progress, result,
                   crashes, faults, fsVars, clientVars, otherVars>>

\* ---------------------------------------------------------------- strings
\* File names, URLs and workflow IDs are sequences of characters.
Undefined == <<"undefined">>      \* an absent value: no character sequence

UpperCase == {"A", "D", "E", "I", "M", "P", "S", "T"}
Digits == {"0", "1", "2", "3", "4", "5", "6", "7", "8", "9"}
LowerCase == {"a", "b", "c", "d", "e", "f", "g", "h", "i", "j", "k", "l", "m", "n", "o",
              "p", "q", "r", "s", "t", "u", "v", "w", "x", "y", "z"}

\* c.toLowerCase()
LowerChar(c) ==
    CASE c = "A" -> "a" [] c = "D" -> "d" [] c = "E" -> "e" [] c = "I" -> "i"
      [] c = "M" -> "m" [] c = "P" -> "p" [] c = "S" -> "s" [] c = "T" -> "t"
      [] OTHER -> c

\* s.toLowerCase()
toLowerCase(s) == [i \in 1..Len(s) |-> LowerChar(s[i])]

\* the positions of character c in s
Positions(s, c) == {i \in 1..Len(s) : s[i] = c}

Max(S) == CHOOSE x \in S : \A y \in S : y <= x
Min(S) == CHOOSE x \in S : \A y \in S : x <= y

\* s.split("/").pop(): what follows the last "/"
LastSegment(s) ==
    IF Positions(s, "/") = {} THEN s
    ELSE SubSeq(s, Max(Positions(s, "/")) + 1, Len(s))

\* s.replace(/\.[^/.]+$/, ""): a final "." followed by one or more characters
\* other than "/" and "." is cut off with them
StripExtension(s) ==
    LET dots == Positions(s, ".") IN
    IF dots = {} THEN s
    ELSE LET d == Max(dots) IN
         IF d < Len(s) /\ \A i \in (d + 1)..Len(s) : s[i] # "/"
           THEN SubSeq(s, 1, d - 1)
           ELSE s

\* s.replace(/[^a-zA-Z0-9-_]/g, "-")
Sanitize(s) ==
    [i \in 1..Len(s) |->
        IF s[i] \in LowerCase \cup UpperCase \cup Digits \cup {"-", "_"} THEN s[i] ELSE "-"]

\* s.replace(/\s+/g, "-"): every run of white space becomes one "-"
DashSpaces(s) ==
    LET keep == {i \in 1..Len(s) : s[i] # " " \/ i = 1 \/ s[i - 1] # " "}
        Kept(i) == CHOOSE k \in keep : Cardinality({j \in keep : j <= k}) = i
    IN [i \in 1..Cardinality(keep) |-> IF s[Kept(i)] = " " THEN "-" ELSE s[Kept(i)]]

HttpsPrefix == <<"h", "t", "t", "p", "s", ":", "/", "/">>

\* new URL(s).pathname for an https URL: what follows the host, up to a "?"
\* or "#"; Undefined when new URL(s) throws (s has no scheme)
URLpathname(s) ==
    IF Len(s) < Len(HttpsPrefix) \/ SubSeq(s, 1, Len(HttpsPrefix)) # HttpsPrefix THEN Undefined
    ELSE LET rest == SubSeq(s, Len(HttpsPrefix) + 1, Len(s))
             stop == Positions(rest, "?") \cup Positions(rest, "#")
             upto == IF stop = {} THEN Len(rest) ELSE Min(stop) - 1
             path == SubSeq(rest, 1, upto)
             slashes == Positions(path, "/")
         IN IF slashes = {} THEN <<"/">> ELSE SubSeq(path, Min(slashes), Len(path))

Video == <<"v", "i", "d", "e", "o">>

\* path.extname(name): from the last "." on, unless there is none or the name
\* starts with it
extname(name) ==
    LET dots == Positions(name, ".") IN
    IF dots = {} \/ Max(dots) = 1 THEN <<>> ELSE SubSeq(name, Max(dots), Len(name))

\* ------------------------------------------------ TemporalClientService
\* getWorkflowStatus(workflowId)
getWorkflowStatus ==
    [status |-> wfStatus, result |-> IF wfStatus = "COMPLETED" THEN result ELSE NoResult]

NoSnap ==
    [currentStep |-> 0, totalSteps |-> 0, stepName |-> "none", percentComplete |-> 0,
     status |-> "none", error |-> NoError]

\* Workflow IDs a client may ask about: the run's, and one no run has.
WorkflowIds == {"run", "unknown"}

\* Messages of the errors the Temporal client throws.
NotFoundMessages == {"workflow not found", "NOT_FOUND: no workflow"}
UnavailableMessages == {"connection refused", "UNAVAILABLE: service unavailable"}
ErrorMessages == NotFoundMessages \cup UnavailableMessages \cup {"deadline exceeded"}

\* What a call of the Temporal client about workflow `id` can end with:
\* NoError, or the message of the error it throws.
RpcOutcomes(id) ==
    IF id = "run" THEN {NoError} \cup (ErrorMessages \ NotFoundMessages)
                  ELSE NotFoundMessages \cup UnavailableMessages

\* Messages of client errors that match both, or none, of the service's patterns.
MixedMessages == {"connection lost: namespace not found", "Connection refused", "Unknown error"}

\* message.includes(p)
Includes(message, p) ==
    CASE p = "not found" ->
           message \in {"workflow not found", "connection lost: namespace not found"}
      [] p = "NOT_FOUND" -> message = "NOT_FOUND: no workflow"
      [] p = "connection" ->
           message \in {"connection refused", "connection lost: namespace not found"}
      [] p = "UNAVAILABLE" -> message = "UNAVAILABLE: service unavailable"
      [] OTHER -> FALSE

\* errorContains(error, ...patterns)
errorContains(message, patterns) == \E p \in patterns : Includes(message, p)

\* what a client call resolves with when it has no status to give
Null == [status |-> "null", result |-> NoResult]

\* Faulty variant: Temporal's not-found errors are not recognised
getTranslationStatusNoNotFound(id, status, err) ==
    IF err = NoError /\ status # Null
      THEN [outcome |-> "ok", status |-> status.status, result |-> status.result]
    ELSE IF err = NoError
      THEN [outcome |-> "WorkflowNotFoundException", status |-> "none", result |-> NoResult]
    ELSE IF errorContains(err, {"connection", "UNAVAILABLE"})
      THEN [outcome |-> "TemporalConnectionException", status |-> "none", result |-> NoResult]
    ELSE [outcome |-> "WorkflowException", status |-> "none", result |-> NoResult]

\* Faulty variant: the connection patterns are tried before the not-found ones
getTranslationStatusConnectionFirst(id, status, err) ==
    IF err = NoError /\ status # Null
      THEN [outcome |-> "ok", status |-> status.status, result |-> status.result]
    ELSE IF err = NoError
      THEN [outcome |-> "WorkflowNotFoundException", status |-> "none", result |-> NoResult]
    ELSE IF errorContains(err, {"connection", "UNAVAILABLE"})
      THEN [outcome |-> "TemporalConnectionException", status |-> "none", result |-> NoResult]
    ELSE IF errorContains(err, {"not found", "NOT_FOUND"})
      THEN [outcome |-> "WorkflowNotFoundException", status |-> "none", result |-> NoResult]
    ELSE [outcome |-> "WorkflowException", status |-> "none", result |-> NoResult]

\* TranslatorService.getTranslationStatus(workflowId); status, err: what
\* temporalClient.getWorkflowStatus resolves with, or the message of the
\* error it throws
getTranslationStatus(id, status, err) ==
    IF err = NoError /\ status # Null
      THEN [outcome |-> "ok", status |-> status.status, result |-> status.result]
    ELSE IF err = NoError
      THEN [outcome |-> "WorkflowNotFoundException", status |-> "none", result |-> NoResult]
    ELSE IF errorContains(err, {"not found", "NOT_FOUND"})
      THEN [outcome |-> "WorkflowNotFoundException", status |-> "none", result |-> NoResult]
    ELSE IF errorContains(err, {"connection", "UNAVAILABLE"})
      THEN [outcome |-> "TemporalConnectionException", status |-> "none", result |-> NoResult]
    ELSE [outcome |-> "WorkflowException", status |-> "none", result |-> NoResult]

\* generateSubtitles: the srtPath of the result object p it returned
srtPath(p) == File("tmp", "subtitles.srt", p.att)

\* the answer of the workflow's getProgress query handler: () => progress
getProgressQuery == progress

\* queryWorkflowProgress(workflowId); err: the message of the error describe()
\* or query() throws (NoError: neither throws)
queryWorkflowProgress(err) ==
    IF err # NoError
      THEN [currentStep |-> 0, totalSteps |-> 7, stepName |-> "Unknown", percentComplete |-> 0,
            status |-> "running", error |-> err]
    ELSE IF wfStatus = "COMPLETED"
      THEN [currentStep |-> 7, totalSteps |-> 7, stepName |-> "Completed", percentComplete |-> 100,
            status |-> "completed", error |-> NoError]
    ELSE IF wfStatus \in {"TIMED_OUT", "CANCELLED"}
      THEN [currentStep |-> 0, totalSteps |-> 7, stepName |-> wfStatus, percentComplete |-> 0,
            status |-> "failed", error |-> "Workflow closed"]   \* `Workflow ${name.toLowerCase()}`
    ELSE getProgressQuery

\* A client calls queryWorkflowProgress.  The getProgress query is answered
\* by a live worker between two workflow tasks; with no worker it throws.
Query(err) ==
    /\ (err = NoError /\ wfStatus \notin {"COMPLETED", "TIMED_OUT", "CANCELLED"})
          => (workerUp /\ wfLoaded /\ ~pendingTask)
    /\ lastSnap' = queryWorkflowProgress(err)
    /\ UNCHANGED <<input, wfStatus, recorded, actFailed, scheduled, args, attempt, calls,
                   running, apiLog, log, workerUp, wfLoaded, pendingTask, pc, progress,
                   result, crashes, faults, cancelAt, fsVars, reply, otherVars>>

NoReply ==
    [op |-> "none", id |-> "none", err |-> NoError, outcome |-> "none", status |-> "none",
     result |-> NoResult, snap |-> NoSnap]

\* A client asks for the status of workflow `id` (GET /translate/:workflowId).
Describe(id, err) ==
    /\ err \in RpcOutcomes(id)
    /\ reply' = LET r == getTranslationStatus(id, getWorkflowStatus, err) IN
                  [op |-> "status", id |-> id, err |-> err, outcome |-> r.outcome,
                   status |-> r.status, result |-> r.result, snap |-> NoSnap]
    /\ UNCHANGED <<input, wfStatus, recorded, actFailed, scheduled, args, attempt, calls,
                   running, apiLog, log, workerUp, wfLoaded, pendingTask, pc, progress,
                   result, crashes, faults, cancelAt, fsVars, lastSnap, otherVars>>

\* A client asks for the progress of a workflow ID that no run has:
\* handle.describe() throws and queryWorkflowProgress returns from its catch block.
QueryUnknown(err) ==
    /\ err \in RpcOutcomes("unknown")
    /\ reply' = [op |-> "progress", id |-> "unknown", err |-> err, outcome |-> "ok",
                  status |-> "none", result |-> NoResult, snap |-> queryWorkflowProgress(err)]
    /\ UNCHANGED <<input, wfStatus, recorded, actFailed, scheduled, args, attempt, calls,
                   running, apiLog, log, workerUp, wfLoaded, pendingTask, pc, progress,
                   result, crashes, faults, cancelAt, fsVars, lastSnap, otherVars>>

\* ------------------------------------------------------- HTTP front end
Absent == "undefined"       \* an absent header, message or error name

\* extractBaseName(videoUrl, fileName)
extractBaseName(videoUrl, fileName) ==
    IF fileName # Undefined /\ fileName # <<>>
      THEN toLowerCase(Sanitize(StripExtension(fileName)))
    ELSE LET pathname == URLpathname(videoUrl)
             from == IF pathname # Undefined THEN pathname ELSE videoUrl
             filename == IF LastSegment(from) = <<>> THEN Video ELSE LastSegment(from)
         IN toLowerCase(Sanitize(StripExtension(filename)))

\* input.targetLanguage.toLowerCase().replace(/\s+/g, "-")
targetLang(targetLanguage) == DashSpaces(toLowerCase(targetLanguage))

\* `${fileBaseName}-${targetLang}-${uuidv4()}`
workflowId(dto, uuid) ==
    extractBaseName(dto.videoUrl, dto.fileName) \o <<"-">>
        \o targetLang(dto.targetLanguage) \o <<"-">> \o uuid

\* what uuidv4() can return
UUIDs == {<<"u", "1">>, <<"u", "2">>}

\* the v4 UUIDs of the workflows started so far
UsedUUIDs == {u \in UUIDs : \E id \in DOMAIN runs : SubSeq(id, Len(id) - Len(u) + 1, Len(id)) = u}

\* startTranslationWorkflow(input): the workflow input it starts the run with
workflowInput(dto, uuid) ==
    [videoUrl |-> dto.videoUrl, targetLanguage |-> dto.targetLanguage,
     fileName |-> dto.fileName, workflowId |-> workflowId(dto, uuid)]

\* saveWorkflowArtifacts / generateOutputVideo: the run's directory under the
\* output directory
artifactsDir(wfInput) == IF wfInput.workflowId # <<>> THEN wfInput.workflowId ELSE <<"t", "r", "a", "n", "s", "l", "a", "t", "i", "o", "n", "-", "n", "o", "w">>

UPLOAD_DIR == <<"/", "t", "m", "p", "/", "v", "i", "d", "e", "o", "-", "t", "r", "a", "n", "s", "l", "a", "t", "o", "r", "/", "u", "p", "l", "o", "a", "d", "s">>

NoFile == [originalname |-> Undefined, path |-> Undefined]

\* multer's diskStorage: where the uploaded file is stored
UploadedFile(originalname, uniqueSuffix) ==
    [originalname |-> originalname,
     path |-> UPLOAD_DIR \o <<"/", "u", "p", "l", "o", "a", "d", "-">> \o uniqueSuffix \o extname(originalname)]

\* class-validator's @IsString() @IsNotEmpty()
IsNotEmpty(v) == v # Undefined /\ v # <<>>

\* Faulty variant: empty strings pass validation
validateTranslateVideoDtoAcceptsEmpty(body) ==
    {f \in {"videoUrl", "targetLanguage"} : body[f] = Undefined}

\* ValidationPipe on a TranslateVideoDto: the properties it rejects
validateTranslateVideoDto(body) ==
    {f \in {"videoUrl", "targetLanguage"} : ~IsNotEmpty(body[f])}

\* ValidationPipe on a TranslateFileDto
validateTranslateFileDto(body) ==
    {f \in {"targetLanguage"} : ~IsNotEmpty(body[f])}

\* an HttpException with an object response
HttpException(name, status, message, error) ==
    [kind |-> "HttpException", name |-> name, status |-> status, message |-> message,
     response |-> [kind |-> "object", message |-> message, error |-> error]]

BadRequestException(message) == HttpException("BadRequestException", 400, message, "Bad Request")

\* the exceptions of common/exceptions, by class name
TranslatorException(name) ==
    CASE name = "WorkflowNotFoundException" ->
           HttpException(name, 404, "Workflow not found: ${workflowId}", "WorkflowNotFound")
      [] name = "TemporalConnectionException" ->
           HttpException(name, 503, "Temporal server is unavailable. Please try again later.",
                         "TemporalConnectionError")
      [] name = "WorkflowException" ->
           HttpException(name, 400, "Failed: ${errorMsg}", "WorkflowError")

\* getErrorName(status)
getErrorName(status) ==
    CASE status = 400 -> "Bad Request"
      [] status = 401 -> "Unauthorized"
      [] status = 403 -> "Forbidden"
      [] status = 404 -> "Not Found"
      [] status = 409 -> "Conflict"
      [] status = 422 -> "Unprocessable Entity"
      [] status = 429 -> "Too Many Requests"
      [] status = 500 -> "Internal Server Error"
      [] status = 501 -> "Not Implemented"
      [] status = 502 -> "Bad Gateway"
      [] status = 503 -> "Service Unavailable"
      [] OTHER -> "Unknown Error"

\* Faulty variant: the first operand is never taken
OrElseSecond(x, y) == y

\* x || y on strings: the absent and the empty string are falsy
OrElse(x, y) == IF x # Absent /\ x # "" THEN x ELSE y

\* HttpExceptionFilter.catch(exception, host): the responses it sends
catch(exception, req) ==
    LET isHttp == exception.kind = "HttpException"
        status == IF isHttp THEN exception.status ELSE 500
        message ==
            IF isHttp /\ exception.response.kind = "object"
              THEN OrElse(exception.response.message, exception.message)
            ELSE IF isHttp THEN exception.response.message
            ELSE IF exception.kind = "Error" THEN OrElse(exception.message, "Internal server error")
            ELSE "An unexpected error occurred"
        error ==
            IF isHttp /\ exception.response.kind = "object"
              THEN OrElse(exception.response.error, getErrorName(status))
            ELSE IF isHttp THEN getErrorName(status)
            ELSE IF exception.kind = "Error" THEN "InternalServerError"
            ELSE "UnknownError"
    IN <<[status |-> status,
          body |-> [statusCode |-> status, message |-> message, error |-> error,
                    timestamp |-> "now", path |-> req.op, method |-> req.method,
                    requestId |-> OrElse(req.requestId, Absent)]]>>

\* Faulty variant: 'UNAVAILABLE' is not recognised
startTranslationConnectionOnly(dto, uuid, err) ==
    IF err = NoError
      THEN [outcome |-> "ok", workflowId |-> workflowId(dto, uuid), status |-> "started"]
    ELSE IF errorContains(err, {"connection"})
      THEN [outcome |-> "TemporalConnectionException", workflowId |-> Undefined, status |-> "none"]
    ELSE [outcome |-> "WorkflowException", workflowId |-> Undefined, status |-> "none"]

\* TranslatorService.startTranslation(dto); err: what
\* temporalClient.startTranslationWorkflow ends with
startTranslation(dto, uuid, err) ==
    IF err = NoError
      THEN [outcome |-> "ok", workflowId |-> workflowId(dto, uuid), status |-> "started"]
    ELSE IF errorContains(err, {"connection", "UNAVAILABLE"})
      THEN [outcome |-> "TemporalConnectionException", workflowId |-> Undefined, status |-> "none"]
    ELSE [outcome |-> "WorkflowException", workflowId |-> Undefined, status |-> "none"]

\* ------------------------------------------------------ specification
\* the run: started, its first workflow task pending
RunInit ==
    /\ input \in [generateVideo : BOOLEAN, media : {"video", "audio"}]
    /\ wfStatus = "RUNNING"
    /\ recorded = [a \in Activities |-> None]
    /\ actFailed = 0
    /\ scheduled = {}
    /\ args = [a \in Activities |-> NoArgs]
    /\ attempt = [a \in Activities |-> 0]
    /\ calls = [a \in Activities |-> 0]
    /\ running = {}
    /\ apiLog = <<>>
    /\ log = [a \in Activities |-> <<>>]
    /\ workerUp = TRUE
    /\ wfLoaded = FALSE
    /\ pendingTask = TRUE
    /\ pc = 0
    /\ progress = InitProgress
    /\ result = NoResult
    /\ crashes = 0
    /\ lastSnap = NoSnap
    /\ faults = 0
    /\ cancelAt = 0
    /\ files = {}
    /\ tempFilesCreated = {}
    /\ reply = NoReply

NoRequest == [op |-> "none"]
NoStale == [activity |-> 0, n |-> 0, epoch |-> 0]

Init ==
    /\ RunInit
    /\ request = NoRequest
    /\ response = <<>>
    /\ runs = <<>>
    /\ stale = NoStale

Next ==
    \/ RunWorkflow
    \/ ContinueWorkflow
    \/ \E a \in Activities : StartAttempt(a)
    \/ \E a \in Activities : Succeed(a)
    \/ \E a \in Activities, kind \in {"transient", "permanent"} : Fail(a, kind)
    \/ \E a \in Activities, done \in BOOLEAN : Timeout(a, done)
    \/ AudioFileMissing
    \/ \E o \in ApiOutcomes : WhisperCall(o)
    \/ Crash
    \/ Restart

Spec == Init /\ [][Next]_vars

\* The run observed by a client that polls queryWorkflowProgress.
NextQ ==
    \/ Next
    \/ \E err \in {NoError, "deadline exceeded"} : Query(err)

QuerySpec == Init /\ [][NextQ]_vars

\* The run with a cancellation request from outside.
NextCancel ==
    \/ Next
    \/ RequestCancel

CancelSpec == Init /\ [][NextCancel]_vars

\* The run observed by a client that asks for the status of workflow IDs;
\* the Temporal client answers, or reports the ID as not found.
ClientOutcomes == {NoError, "workflow not found"}

NextClient ==
    \/ Next
    \/ \E id \in WorkflowIds, err \in ClientOutcomes : Describe(id, err)

ClientSpec == Init /\ [][NextClient]_vars

\* The run next to a client that asks for the progress of an unknown workflow ID.
NextUnknown ==
    \/ Next
    \/ \E err \in ErrorMessages : QueryUnknown(err)

UnknownSpec == Init /\ [][NextUnknown]_vars

\* Scheduling the engine guarantees: pending workflow tasks and scheduled
\* activities are eventually dispatched, a dead worker is eventually replaced.
Fairness ==
    /\ WF_vars(RunWorkflow)
    /\ WF_vars(ContinueWorkflow)
    /\ WF_vars(Restart)
    /\ WF_vars(\E a \in Activities : StartAttempt(a))
    /\ WF_vars(\E a \in Activities : Succeed(a))
    /\ WF_vars(WhisperCall("ok"))


\* --------------------------------------- two runs in one worker process
\* The worker (Worker.create without a concurrency limit) executes the
\* activities of several runs side by side; tempFilesCreated is one array of
\* the activities module, shared by all of them.  Here every activity
\* succeeds unless a file it reads is gone; a file's stamp is the run that
\* made it; only the files under TEMP_DIR are followed.
Runs == {1, 2}

NewRun == [next |-> extractAudio, status |-> "RUNNING"]

\* the files under TEMP_DIR activity a of run r writes
TempWrites(a, r) == {f \in {Writes(a, r)[i] : i \in 1..Len(Writes(a, r))} : f.dir = "tmp"}

\* the files under TEMP_DIR activity a of run r reads
TempReads(a, r) ==
    CASE a = transcribeAudio ->       \* if (!fs.existsSync(audioPath)) throw
           IF input.media = "video" THEN {File("tmp", "audio.mp3", r)} ELSE {}
      [] a = generateOutputVideo -> {File("tmp", "subtitles.srt", r)}    \* input.srtPath
      [] OTHER -> {}

\* the stage run r calls after stage a
NextStage(a) ==
    IF a + 1 = generateOutputVideo /\ ~(input.generateVideo /\ input.media = "video")
      THEN saveWorkflowArtifacts
      ELSE a + 1

\* The next stage activity of run r executes on the worker.
ExecuteStage(r) ==
    LET a == runs[r].next IN
    /\ runs[r].status = "RUNNING" /\ a \in Stages
    /\ IF TempReads(a, r) \subseteq files
         THEN /\ files' = files \cup TempWrites(a, r)
              /\ tempFilesCreated' = tempFilesCreated \cup TempWrites(a, r)
              /\ runs' = [runs EXCEPT ![r].next = NextStage(a)]
         ELSE /\ runs' = [runs EXCEPT ![r].status = "FAILED"]    \* on every attempt
              /\ UNCHANGED fsVars
    /\ UNCHANGED <<input, wfStatus, recorded, actFailed, scheduled, args, attempt, calls,
                   running, apiLog, log, workerUp, wfLoaded, pendingTask, pc, progress,
                   result, crashes, faults, cancelAt, clientVars, request, response, stale>>

\* cleanupTempFilesActivity of run r executes on the worker; the run returns.
CleanupRun(r) ==
    /\ runs[r].status = "RUNNING" /\ runs[r].next = cleanupTempFilesActivity
    /\ files' = cleanupTempFiles(tempFilesCreated)
    /\ tempFilesCreated' = {}
    /\ runs' = [runs EXCEPT ![r].status = "COMPLETED"]
    /\ UNCHANGED <<input, wfStatus, recorded, actFailed, scheduled, args, attempt, calls,
                   running, apiLog, log, workerUp, wfLoaded, pendingTask, pc, progress,
                   result, crashes, faults, cancelAt, clientVars, request, response, stale>>

TempInit ==
    /\ RunInit
    /\ request = NoRequest
    /\ response = <<>>
    /\ runs = [r \in Runs |-> NewRun]
    /\ stale = NoStale

TempNext ==
    \/ \E r \in Runs : ExecuteStage(r)
    \/ \E r \in Runs : CleanupRun(r)

TempSpec == TempInit /\ [][TempNext]_vars

\* ------------------------------------------------- a late activity attempt
\* startToCloseTimeout closes an attempt at the server, not on the worker: the
\* activities neither heartbeat nor look at a cancellation signal, so the
\* function of a timed-out attempt goes on executing next to the retries.
TimeoutStillExecuting(a) ==
    /\ a \in running /\ stale = NoStale
    /\ faults < MaxFaults
    /\ faults' = faults + 1
    /\ ActivityThrows(a, "timeout")
    /\ stale' = [activity |-> a, n |-> calls[a], epoch |-> crashes]
    /\ UNCHANGED <<input, wfStatus, args, attempt, calls, apiLog, workerUp, wfLoaded,
                   pc, progress, result, crashes, cancelAt, fsVars, clientVars,
                   request, response, runs>>

\* The server's answer to the completion report of invocation n of activity a:
\* accepted only from the attempt that is open for a.
RespondActivityTaskCompleted(a, n) ==
    IF a \in running /\ calls[a] = n THEN "ok" ELSE "NotFound"

\* what the function of invocation n of activity a does to the files when it
\* runs to its end
LateSideEffects(a, n) ==
    LET written == {Writes(a, n)[i] : i \in 1..Len(Writes(a, n))} IN
    IF a = cleanupTempFilesActivity
      THEN /\ files' = cleanupTempFiles(tempFilesCreated)
           /\ tempFilesCreated' = {}
      ELSE /\ files' = files \cup written
           /\ tempFilesCreated' =
                 IF a \in {extractAudio, generateSubtitles}
                   THEN tempFilesCreated \cup {f \in written : f.dir = "tmp"}
                   ELSE tempFilesCreated

\* the activities whose result is the same on every invocation (fixed paths
\* in the run's output directory)
Repeatable == {generateOutputVideo, saveWorkflowArtifacts}

\* the result the function of invocation n of activity a returns; `same`: it
\* equals what another attempt has returned
LatePayload(a, n, same) ==
    IF same /\ a \in Repeatable /\ recorded[a] # None THEN recorded[a]
    ELSE [att |-> n, try |-> 0, video |-> (a = extractAudio /\ input.media = "video")]

\* The function of the timed-out attempt returns and the worker reports its
\* result to the server (the worker process has not died in between).
LateReturn(same) ==
    LET a == stale.activity
        p == LatePayload(a, stale.n, same)
        answer == RespondActivityTaskCompleted(a, stale.n) IN
    /\ a # 0 /\ workerUp /\ crashes = stale.epoch
    /\ LateSideEffects(a, stale.n)
    /\ response' = <<[op |-> "RespondActivityTaskCompleted", activity |-> a,
                      payload |-> p, outcome |-> answer]>>
    /\ stale' = NoStale
    /\ IF answer = "ok"
         THEN ActivityReturns(a, p)
         ELSE UNCHANGED <<recorded, running, scheduled, log, pendingTask, actFailed>>
    /\ UNCHANGED <<input, wfStatus, args, attempt, calls, apiLog, workerUp, wfLoaded,
                   pc, progress, result, crashes, faults, cancelAt, clientVars,
                   request, runs>>

NextReport ==
    \/ Next
    \/ \E a \in Activities : TimeoutStillExecuting(a)
    \/ \E same \in BOOLEAN : LateReturn(same)

ReportSpec == Init /\ [][NextReport]_vars

\* ------------------------------------------------------ HTTP requests
\* the variables of the run, which the front end leaves alone
engineVars == <<input, wfStatus, recorded, actFailed, scheduled, args, attempt, calls,
                running, apiLog, log, workerUp, wfLoaded, pendingTask, pc, progress,
                result, crashes, faults, cancelAt, fsVars, lastSnap, stale>>

\* videoUrl values of POST /translate bodies
VideoUrls ==
    {<<"h", "t", "t", "p", "s", ":", "/", "/", "h", "/", "a", "/", "T", "e", "d", ".", "M", "P", "4", "?", "t", "=", "1">>,
     <<"/", "d", "/", "M", "y", " ", "T", "a", "p", "e", ".", "t", "a", "r", ".", "g", "z">>}

\* targetLanguage values
Languages == {<<"P", "t", " ", " ", "B", "R">>}

\* names of the files clients upload
OriginalNames == {<<"T", "E", "D", ".", "m", "p", "4">>}

\* x-request-id header values
RequestIds == {Absent, "", "req-12345"}

\* what the Temporal client's start call can end with
StartOutcomes ==
    {NoError, "connection refused", "UNAVAILABLE: service unavailable", "deadline exceeded",
     "connection lost: namespace not found"}

\* `${Date.now()}-${Math.round(Math.random() * 1e9)}`
UniqueSuffix == <<"1", "7", "-", "4", "2">>

\* the server accepts the start of a run under workflow ID wfInput.workflowId
Started(wfInput) ==
    [id \in DOMAIN runs \cup {wfInput.workflowId} |->
        IF id = wfInput.workflowId THEN [input |-> wfInput, status |-> "RUNNING"] ELSE runs[id]]

\* what TranslatorController answers once the request passed validation:
\* startTranslation(dto), its result or exception sent as the response
Start(req, dto, uuid, err) ==
    LET r == startTranslation(dto, uuid, err) IN
    /\ reply' = [op |-> "start", id |-> r.workflowId, err |-> err, outcome |-> r.outcome,
                 status |-> r.status, result |-> NoResult, snap |-> NoSnap]
    /\ IF r.outcome = "ok"
         THEN /\ runs' = Started(workflowInput(dto, uuid))
              /\ response' = <<[status |-> 201,
                                body |-> [workflowId |-> r.workflowId, status |-> r.status]]>>
         ELSE /\ runs' = runs
              /\ response' = catch(TranslatorException(r.outcome), req)

\* the request is answered without a call of the service
Reject(req, exception) ==
    /\ reply' = NoReply
    /\ runs' = runs
    /\ response' = catch(exception, req)

\* POST /translate
PostTranslate(body, uuid, err) ==
    LET req == [op |-> "/translate", method |-> "POST", requestId |-> Absent,
                body |-> body, file |-> NoFile, id |-> Undefined,
                rpc |-> [status |-> Null, err |-> err]]
    IN /\ uuid \notin UsedUUIDs
       /\ request' = req
       /\ IF validateTranslateVideoDto(body) # {}
            THEN Reject(req, BadRequestException("validation failed"))
            ELSE Start(req, body, uuid, err)
       /\ UNCHANGED engineVars

\* POST /translate/upload
PostUpload(file, body, uuid, err) ==
    LET req == [op |-> "/translate/upload", method |-> "POST", requestId |-> Absent,
                body |-> body, file |-> file, id |-> Undefined,
                rpc |-> [status |-> Null, err |-> err]]
        translateDto == [videoUrl |-> file.path, targetLanguage |-> body.targetLanguage,
                         fileName |-> Undefined]
    IN /\ uuid \notin UsedUUIDs
       /\ request' = req
       /\ IF validateTranslateFileDto(body) # {}
            THEN Reject(req, BadRequestException("validation failed"))
          ELSE IF file = NoFile
            THEN Reject(req, BadRequestException("No file uploaded"))
          ELSE Start(req, translateDto, uuid, err)
       /\ UNCHANGED engineVars

\* a workflow ID no run was started under
UnknownId == <<"n", "o", "p", "e">>

\* what getWorkflowStatus(id) can end with: <<status, err>>.  A real client
\* resolves with the run's status or throws; the service also accepts a
\* client that resolves with no status
StatusOutcomes(id) ==
    (IF id \in DOMAIN runs
       THEN {<<[status |-> st, result |-> NoResult], NoError>> : st \in {"RUNNING", "FAILED"}}
              \cup {<<Null, err>> : err \in UnavailableMessages \cup {"deadline exceeded"}}
       ELSE {<<Null, err>> : err \in NotFoundMessages \cup MixedMessages})
    \cup {<<Null, NoError>>}

\* GET /translate/:workflowId
GetStatus(id, out) ==
    LET req == [op |-> "/translate/:workflowId", method |-> "GET", requestId |-> Absent,
                body |-> [targetLanguage |-> Undefined], file |-> NoFile, id |-> id,
                rpc |-> [status |-> out[1], err |-> out[2]]]
        r == getTranslationStatus(id, out[1], out[2])
    IN /\ out \in StatusOutcomes(id)
       /\ request' = req
       /\ reply' = [op |-> "status", id |-> id, err |-> out[2], outcome |-> r.outcome,
                    status |-> r.status, result |-> r.result, snap |-> NoSnap]
       /\ response' = IF r.outcome = "ok"
                        THEN <<[status |-> 200,
                                body |-> [workflowId |-> id, status |-> r.status]]>>
                        ELSE catch(TranslatorException(r.outcome), req)
       /\ UNCHANGED <<engineVars, runs>>

\* the requests of ApiSpec carry no x-request-id header
ApiNext ==
    \/ \E body \in [videoUrl : VideoUrls \cup {Undefined, <<>>},
                    targetLanguage : Languages \cup {Undefined, <<>>},
                    fileName : OriginalNames \cup {Undefined}],
          uuid \in UUIDs, err \in StartOutcomes : PostTranslate(body, uuid, err)
    \/ \E file \in {NoFile} \cup {UploadedFile(n, UniqueSuffix) : n \in OriginalNames},
          body \in [targetLanguage : Languages \cup {Undefined, <<>>}],
          uuid \in UUIDs, err \in StartOutcomes : PostUpload(file, body, uuid, err)
    \/ \E id \in DOMAIN runs \cup {UnknownId} :
          \E out \in StatusOutcomes(id) : GetStatus(id, out)

ApiSpec == Init /\ [][ApiNext]_vars

\* ------------------------------------------------- HttpExceptionFilter
\* what the handling of a request can throw
Exceptions ==
    {TranslatorException(n) : n \in {"WorkflowNotFoundException", "TemporalConnectionException",
                                      "WorkflowException"}}
    \cup {BadRequestException("No file uploaded")}
    \cup
    {[kind |-> "HttpException", name |-> "BadRequestException", status |-> 400,
      message |-> "Bad Request Exception",
      response |-> [kind |-> "object", message |-> "videoUrl is required", error |-> "Bad Request"]],
     [kind |-> "HttpException", name |-> "HttpException", status |-> 403, message |-> "Forbidden",
      response |-> [kind |-> "string", message |-> "Forbidden", error |-> Absent]],
     [kind |-> "HttpException", name |-> "HttpException", status |-> 418,
      message |-> "Http Exception",
      response |-> [kind |-> "object", message |-> Absent, error |-> Absent]],
     [kind |-> "HttpException", name |-> "HttpException", status |-> 409,
      message |-> "Http Exception",
      response |-> [kind |-> "object", message |-> "", error |-> "Conflict"]],
     [kind |-> "Error", name |-> "Error", status |-> 0, message |-> "Something went wrong",
      response |-> [kind |-> "none", message |-> Absent, error |-> Absent]],
     [kind |-> "Error", name |-> "Error", status |-> 0, message |-> "",
      response |-> [kind |-> "none", message |-> Absent, error |-> Absent]],
     [kind |-> "other", name |-> "string", status |-> 0, message |-> "string error",
      response |-> [kind |-> "none", message |-> Absent, error |-> Absent]]}

\* the routes of TranslatorController, and one that no controller has
Routes ==
    {<<"GET", "/health">>, <<"POST", "/translate">>, <<"POST", "/translate/upload">>,
     <<"GET", "/translate/:workflowId">>, <<"GET", "/test">>}

\* the handling of a request throws `exception`, which Nest hands to the filter
Throws(exception, route, requestId) ==
    LET req == [op |-> route[2], method |-> route[1], requestId |-> requestId,
                body |-> [targetLanguage |-> Undefined], file |-> NoFile, id |-> Undefined,
                rpc |-> [status |-> Null, err |-> NoError], thrown |-> exception]
    IN /\ request' = req
       /\ Reject(req, exception)
       /\ UNCHANGED engineVars

FilterNext ==
    \E exception \in Exceptions, route \in Routes, requestId \in RequestIds :
        Throws(exception, route, requestId)

FilterSpec == Init /\ [][FilterNext]_vars

\* --------------------------------------------------------- subtitles
\* Times are whole milliseconds; a subtitle file is its sequence of lines and
\* a line a sequence of characters (a cue's text is one element).

\* num.toString()
toString(num) ==
    LET digit == <<"0", "1", "2", "3", "4", "5", "6", "7", "8", "9">>
        len == IF num < 10 THEN 1 ELSE IF num < 100 THEN 2 ELSE IF num < 1000 THEN 3 ELSE 4
    IN [i \in 1..len |-> digit[((num \div (10 ^ (len - i))) % 10) + 1]]

\* pad(num, size): num.toString().padStart(size, "0")
pad(num, size) ==
    LET str == toString(num) IN
    IF Len(str) >= size THEN str ELSE [i \in 1..(size - Len(str)) |-> "0"] \o str

\* formatTime(seconds, format)
formatTime(t, format) ==
    LET hours == t \div 3600000
        minutes == (t % 3600000) \div 60000
        secs == (t % 60000) \div 1000
        ms == t % 1000
    IN pad(hours, 2) \o <<":">> \o pad(minutes, 2) \o <<":">> \o pad(secs, 2)
         \o (IF format = "vtt" THEN <<".">> ELSE <<",">>) \o pad(ms, 3)

Arrow == <<" ", "-", "-", ">", " ">>

\* the lines of the flattened sequence of sequences
RECURSIVE Flatten(_)
Flatten(seqs) == IF seqs = <<>> THEN <<>> ELSE Head(seqs) \o Flatten(Tail(seqs))

\* generateSubtitles: the SRT content built from the segments
srtContent(translatedSegments) ==
    Flatten([index \in 1..Len(translatedSegments) |->
        LET seg == translatedSegments[index] IN
        <<toString(index),
          formatTime(seg.start, "srt") \o Arrow \o formatTime(seg.end, "srt"),
          seg.text, <<>>>>])

\* generateSubtitles: the VTT content built from the segments
vttContent(translatedSegments) ==
    <<<<"W", "E", "B", "V", "T", "T">>, <<>>>> \o
    Flatten([index \in 1..Len(translatedSegments) |->
        LET seg == translatedSegments[index] IN
        <<formatTime(seg.start, "vtt") \o Arrow \o formatTime(seg.end, "vtt"),
          seg.text, <<>>>>])

\* the segments field of a GPT answer that has none
NoSegments == <<[start |-> 0, end |-> 0, text |-> <<"undefined">>]>>

\* Faulty variant: the VTT file is built from the untranslated segments
SubtitleGenerationResultVttFromOriginal(segments, translatedText, parsed) ==
    LET translatedSegments ==
            IF Len(segments) > 0 /\ translatedText # ""
              THEN (IF parsed # NoSegments THEN parsed ELSE segments)
              ELSE segments
    IN [srtContent |-> srtContent(translatedSegments), vttContent |-> vttContent(segments)]

\* generateSubtitles(segments, translatedText, targetLanguage); parsed: the
\* segments of GPT's answer
SubtitleGenerationResult(segments, translatedText, parsed) ==
    LET translatedSegments ==
            IF Len(segments) > 0 /\ translatedText # ""
              THEN (IF parsed # NoSegments THEN parsed ELSE segments)
              ELSE segments
    IN [srtContent |-> srtContent(translatedSegments),
        vttContent |-> vttContent(translatedSegments)]

\* the segments Whisper returns for the audio
WhisperSegments ==
    {[start |-> 0, end |-> 1500, text |-> <<"Hello">>],
     [start |-> 1500, end |-> 3723004, text |-> <<"world">>],
     [start |-> 3723004, end |-> 3723004, text |-> <<>>]}

\* the segments GPT answers with
GptSegments ==
    {[start |-> 0, end |-> 1500, text |-> <<"Hola">>],
     [start |-> 59999, end |-> 60000, text |-> <<"mundo">>],
     [start |-> 1500, end |-> 0, text |-> <<>>]}

\* the sequences of at most MaxSegments elements of S
Lists(S) == UNION {[1..n -> S] : n \in 0..MaxSegments}

\* One call of generateSubtitles.
GenerateSubtitles(segments, translatedText, parsed) ==
    /\ request = NoRequest
    /\ request' = [op |-> "generateSubtitles", segments |-> segments,
                   translatedText |-> translatedText, parsed |-> parsed]
    /\ response' = <<SubtitleGenerationResult(segments, translatedText, parsed)>>
    /\ UNCHANGED <<engineVars, reply, runs>>

SubtitleNext ==
    \E segments \in Lists(WhisperSegments), translatedText \in {"", "Hola mundo"},
       parsed \in Lists(GptSegments) \cup {NoSegments} :
        GenerateSubtitles(segments, translatedText, parsed)

SubtitleSpec == Init /\ [][SubtitleNext]_vars

\* ================================================================ claims
\* The stages a run executes: generateOutputVideo only under the workflow's
\* condition (generateVideo && originalVideoPath).
InPipeline(a) == a # generateOutputVideo \/ RunsVideoStep

FirstUnrecorded ==
    CHOOSE a \in Activities :
        /\ InPipeline(a) /\ recorded[a] = None
        /\ \A b \in 1..(a - 1) : InPipeline(b) => recorded[b] # None

\* C1: once the result of a stage is recorded in the run's history, no
\* execution of translationWorkflow (in particular the re-execution from the
\* first line after a worker crash) invokes that stage's activity again; a
\* re-execution leaves the workflow awaiting the first stage that has no
\* recorded result, and schedules no recorded stage.
C1_ResumeIdempotence ==
    [][/\ \A a \in Activities : recorded[a] # None => calls'[a] = calls[a]
       /\ (~wfLoaded /\ wfLoaded' /\ wfStatus' = "RUNNING")
            => /\ pc' = FirstUnrecorded
               /\ \A a \in Activities : recorded[a] # None => a \notin scheduled']_vars

\* a worker crashed while translateText was executing, the workflow was
\* re-executed and awaits translateText; stages 1 and 2 were invoked once
C1_Witness ==
    /\ crashes > 0 /\ wfLoaded /\ pc = translateText
    /\ log[translateText] = <<"timeout">>
    /\ calls[extractAudio] = 1 /\ calls[transcribeAudio] = 1
    /\ calls[translateText] = 2

ActivityFailed ==
    \E a \in Activities : calls[a] > 1 \/ \E i \in 1..Len(log[a]) : log[a][i] # "ok"

\* describe returns COMPLETED with the final result; the progress query ends at 100
RunCompleted ==
    /\ getWorkflowStatus.status = "COMPLETED"
    /\ getWorkflowStatus.result = WorkflowResult
    /\ getWorkflowStatus.result.subtitlesPath # None
    /\ getWorkflowStatus.result.transcription # None
    /\ getWorkflowStatus.result.translation # None
    /\ getWorkflowStatus.result.summary # None
    /\ getWorkflowStatus.result.keyPoints # None
    /\ queryWorkflowProgress(NoError).percentComplete = 100
    /\ queryWorkflowProgress(NoError).status = "completed"
    /\ wfLoaded => (progress.percentComplete = 100 /\ progress.status = "completed")

\* The run under fair scheduling, followed until an activity attempt has
\* failed (ActivityFailed stays true once it is): what happens after that
\* point is the subject of Spec.
LiveNext ==
    \/ ~ActivityFailed /\ RunWorkflow
    \/ ~ActivityFailed /\ ContinueWorkflow
    \/ \E a \in Activities : ~ActivityFailed /\ StartAttempt(a)
    \/ \E a \in Activities : ~ActivityFailed /\ Succeed(a)
    \/ \E a \in Activities, kind \in {"transient", "permanent"} : ~ActivityFailed /\ Fail(a, kind)
    \/ \E a \in Activities, done \in BOOLEAN : ~ActivityFailed /\ Timeout(a, done)
    \/ ~ActivityFailed /\ AudioFileMissing
    \/ \E o \in ApiOutcomes : ~ActivityFailed /\ WhisperCall(o)
    \/ ~ActivityFailed /\ Crash
    \/ ~ActivityFailed /\ Restart

\* the engine's scheduling (Fairness) of the steps LiveNext has
LiveFairness ==
    /\ WF_vars(~ActivityFailed /\ RunWorkflow)
    /\ WF_vars(~ActivityFailed /\ ContinueWorkflow)
    /\ WF_vars(~ActivityFailed /\ Restart)
    /\ WF_vars(\E a \in Activities : ~ActivityFailed /\ StartAttempt(a))
    /\ WF_vars(\E a \in Activities : ~ActivityFailed /\ Succeed(a))
    /\ WF_vars(~ActivityFailed /\ WhisperCall("ok"))

LiveSpec == Init /\ [][LiveNext]_vars /\ LiveFairness

\* C4: under fair scheduling a run in which no activity attempt fails
\* eventually is COMPLETED: getWorkflowStatus returns COMPLETED with the
\* result and queryWorkflowProgress returns percentComplete 100, 'completed'.
C4_Liveness == <>(ActivityFailed \/ RunCompleted)

C4_Witness == RunCompleted /\ ~ActivityFailed /\ faults = 1 /\ crashes = 1

Transient == {"transient", "timeout"}

AlwaysFailsTransiently(a) ==
    /\ log[a] # <<>>
    /\ \A i \in 1..Len(log[a]) : log[a][i] \in Transient

C6_NoRetryOnPermanent ==
    \A a \in Stages :
        (log[a] # <<>> /\ log[a][1] = "permanent") => (calls[a] = 1 /\ actFailed = a)

\* C7: while the Whisper call of the first transcribeAudio attempt has only
\* failed with ECONNRESET (once or twice) the activity keeps running and
\* nothing is recorded; when the third call succeeds the activity attempt
\* succeeds, the recorded transcription is the third call's, it is the one
\* passed to every later stage and returned in the result, and the run
\* does not fail unless another activity fails.
C7_TranscriptionRetry ==
    /\ (/\ calls[transcribeAudio] = 1
        /\ apiLog \in {<<"ECONNRESET">>, <<"ECONNRESET", "ECONNRESET">>}
        /\ log[transcribeAudio] # <<"timeout">>)     \* the attempt was not lost in a crash
          => /\ transcribeAudio \in running
             /\ log[transcribeAudio] = <<>>
             /\ recorded[transcribeAudio] = None
    /\ (calls[transcribeAudio] = 1 /\ apiLog = <<"ECONNRESET", "ECONNRESET", "ok">>)
          => /\ log[transcribeAudio] = <<"ok">>
             /\ recorded[transcribeAudio] = [att |-> 1, try |-> 3, video |-> FALSE]
             /\ \A b \in Stages :
                   (transcribeAudio \in Deps(b) /\ (b \in scheduled \/ calls[b] > 0))
                      => args[b][transcribeAudio] = recorded[transcribeAudio]
             /\ wfStatus = "COMPLETED" => result.transcription = recorded[transcribeAudio]
             /\ wfStatus = "FAILED" => actFailed \notin {0, transcribeAudio}
             /\ (pc \in {9, 10} /\ ~ActivityFailed) => wfStatus = "COMPLETED"

C7_Witness ==
    /\ apiLog = <<"ECONNRESET", "ECONNRESET", "ok">>
    /\ calls[transcribeAudio] = 1
    /\ wfStatus = "COMPLETED"
    /\ result.transcription = [att |-> 1, try |-> 3, video |-> FALSE]

\* C8: between two consecutive queryWorkflowProgress calls on the run the
\* returned percentComplete does not decrease, as long as the earlier
\* snapshot is not terminal.
C8_MonotonicProgress ==
    [][lastSnap.status = "running"
          => lastSnap'.percentComplete >= lastSnap.percentComplete]_vars

\* README "Progress percentages": cumulative percent of each stage
CumulativePercent(a) ==
    CASE a = extractAudio -> 5
      [] a = transcribeAudio -> 20
      [] a = translateText -> 40
      [] a = generateSummary -> 55
      [] a = generateSubtitles -> 70
      [] a = generateOutputVideo -> 85
      [] a = saveWorkflowArtifacts -> 95
      [] OTHER -> 0

\* the last stage the run has started (0: none yet)
LastReported ==
    LET started == {a \in Stages : a \in scheduled \/ calls[a] > 0}
    IN IF started = {} THEN 0 ELSE CHOOSE a \in started : \A b \in started : b <= a

\* C9: a snapshot returned by queryWorkflowProgress has percentComplete 100
\* only if the run is COMPLETED, and for a run that is not COMPLETED its
\* percentComplete is the cumulative percent of the last started stage.
C9_SnapshotPercent ==
    [][lastSnap' # lastSnap
          => /\ lastSnap'.percentComplete = 100 => wfStatus = "COMPLETED"
             /\ wfStatus # "COMPLETED"
                   => lastSnap'.percentComplete = CumulativePercent(LastReported)]_vars

Closed == wfStatus \in {"COMPLETED", "FAILED", "CANCELLED"}

\* C11: once the run is COMPLETED, FAILED or CANCELLED, no step changes its
\* status, none invokes a stage activity, and no activity of the run is
\* pending or executing any more.
C11_TerminalFinal ==
    [][Closed => /\ wfStatus' = wfStatus
                 /\ \A a \in Stages : calls'[a] = calls[a]
                 /\ scheduled' = {} /\ running' = {}]_vars

\* the run was cancelled while translateText was executing, and the worker
\* crashed after the run had closed
C11_Witness ==
    /\ wfStatus = "CANCELLED" /\ cancelAt = translateText
    /\ ~workerUp /\ calls[translateText] > 0

\* C12: when the run is closed (COMPLETED or FAILED), cleanupTempFilesActivity
\* has been invoked for it.
C12_CleanupAlwaysAttempted ==
    wfStatus \in {"COMPLETED", "FAILED"} => calls[cleanupTempFilesActivity] > 0

AllStagesSucceeded == \A a \in Stages : InPipeline(a) => recorded[a] # None

\* C13: a run all of whose stages have recorded results is never FAILED,
\* whatever happens to the cleanup; once the workflow has processed the
\* outcome of the cleanup the run is COMPLETED with its result.
C13_CleanupFailureNotPromoted ==
    AllStagesSucceeded =>
        /\ wfStatus # "FAILED"
        /\ (actFailed = cleanupTempFilesActivity /\ ~pendingTask)
              => (wfStatus = "COMPLETED" /\ result = WorkflowResult)

\* C14: after cancellation was requested while translateText was pending, the
\* results of extractAudio and transcribeAudio stay recorded, no result is
\* recorded for translateText, no later activity is scheduled or invoked,
\* and once the workflow has processed the request the run is CANCELLED.
C14_CancelDuringTranslate ==
    cancelAt = translateText =>
        /\ recorded[extractAudio] # None /\ recorded[transcribeAudio] # None
        /\ recorded[translateText] = None
        /\ \A b \in Activities : b > translateText => (calls[b] = 0 /\ b \notin scheduled)
        /\ ~pendingTask => wfStatus = "CANCELLED"

\* C15: a getTranslationStatus call for the run that does not fail returns
\* the run's status, with the workflow's result exactly when that status is
\* COMPLETED; a call for an unknown workflow ID never returns a status, and
\* throws WorkflowNotFoundException when Temporal reports the ID as not found.
C15_Describe ==
    reply.op = "status" =>
        /\ (reply.id = "run" /\ reply.err = NoError)
              => /\ reply.outcome = "ok"
                 /\ reply.status \in {"RUNNING", "COMPLETED", "FAILED"}
                 /\ Closed => (reply.status \in {"RUNNING", wfStatus})
                 /\ (reply.result # NoResult) <=> (reply.status = "COMPLETED")
                 /\ reply.status = "COMPLETED" => reply.result = result
        /\ reply.id = "unknown"
              => /\ reply.outcome # "ok" /\ reply.status = "none" /\ reply.result = NoResult
                 /\ reply.err \in NotFoundMessages
                       => reply.outcome = "WorkflowNotFoundException"

C15_Witness ==
    /\ reply.op = "status" /\ reply.id = "run"
    /\ reply.status = "COMPLETED" /\ reply.result = WorkflowResult /\ reply.result.success

\* what queryWorkflowProgress can return for the existing run in this state
RunSnapshots == {queryWorkflowProgress(e) : e \in RpcOutcomes("run")}

\* C16: what queryWorkflowProgress returns for a workflow ID Temporal reports
\* as not found is not a snapshot with status 'running' and differs from
\* everything it returns for the existing run.
C16_UnknownRunDistinct ==
    (reply.op = "progress" /\ reply.id = "unknown" /\ reply.err \in NotFoundMessages)
        => /\ reply.snap.status # "running"
           /\ reply.snap \notin RunSnapshots

\* C17: a snapshot returned by queryWorkflowProgress, and the workflow's own
\* progress, carry an error only with status 'failed'; getWorkflowStatus
\* carries a result only for a COMPLETED run.
C17_ErrorOnlyWhenFailed ==
    /\ lastSnap.error # NoError => lastSnap.status = "failed"
    /\ progress.error # NoError => progress.status = "failed"
    /\ getWorkflowStatus.result # NoResult => wfStatus = "COMPLETED"

\* the five files saveWorkflowArtifacts writes
ArtifactFiles ==
    {File("output", n, 0) : n \in {"subtitles.srt", "subtitles.vtt", "metadata.json",
                                    "transcription.txt", "translation.txt"}}

\* the artifacts in the run's output directory (the output video apart)
Artifacts == {f \in files : f.dir = "output" /\ f.name # "translated_video.mp4"}

\* C18: however many times saveWorkflowArtifacts was invoked (retried after a
\* failed or timed-out attempt that had written some or all of the files),
\* the output directory holds no artifact other than the five fixed names,
\* and exactly those five once an invocation has returned.
C18_ArtifactsExactlyOnce ==
    /\ Artifacts \subseteq ArtifactFiles
    /\ recorded[saveWorkflowArtifacts] # None => Artifacts = ArtifactFiles

C18_Witness ==
    /\ calls[saveWorkflowArtifacts] = 3 /\ recorded[saveWorkflowArtifacts] # None
    /\ Artifacts = ArtifactFiles /\ wfStatus = "COMPLETED"

\* C19: in a COMPLETED run the result's subtitlesPath is subtitles.srt in the
\* run's output directory, and that file exists.
C19_SubtitlesPathInArtifacts ==
    wfStatus = "COMPLETED" =>
        /\ srtPath(result.subtitlesPath) = File("output", "subtitles.srt", 0)
        /\ srtPath(result.subtitlesPath) \in files

\* C20: with generateVideo false, generateOutputVideo is never scheduled or
\* invoked, no output video is written, and the result of a COMPLETED run
\* has no outputVideoPath.
C20_VideoStepSkipped ==
    ~input.generateVideo =>
        /\ calls[generateOutputVideo] = 0 /\ generateOutputVideo \notin scheduled
        /\ recorded[generateOutputVideo] = None
        /\ File("output", "translated_video.mp4", 0) \notin files
        /\ wfStatus = "COMPLETED" => result.outputVideoPath = None

C20_Witness ==
    /\ ~input.generateVideo /\ input.media = "video" /\ recorded[extractAudio].video
    /\ wfStatus = "COMPLETED" /\ result.outputVideoPath = None
    /\ calls[saveWorkflowArtifacts] > 0

\* the stages whose results are recorded in the run's history
RecordedStages == {a \in Stages : recorded[a] # None}

\* C21 (as stated): the recorded stages are a contiguous prefix of the fixed
\* 7-stage sequence: no stage has a recorded result while a stage of lower
\* ordinal has none.
C21_ContiguousPrefix ==
    \A a \in RecordedStages : \A b \in 1..(a - 1) : b \in RecordedStages

\* C21 (amended): the recorded stages are a contiguous prefix of the sequence
\* of stages the run executes (generateOutputVideo is not among them when the
\* workflow skips it): no stage has a recorded result while a stage of lower
\* ordinal that the run executes has none.
C21_ContiguousExecutedPrefix ==
    \A a \in RecordedStages : \A b \in 1..(a - 1) : InPipeline(b) => b \in RecordedStages

\* a run that makes the output video was re-executed after a crash and has
\* recorded exactly the stages 1..6
C21_Witness ==
    /\ RecordedStages = 1..6 /\ RunsVideoStep
    /\ crashes = 1 /\ wfLoaded /\ pc = saveWorkflowArtifacts

\* C22: while a run is executing, no step of another run deletes a temp file
\* the run created, or drops it from the list of temp files to clean up.
C22_TempFilesScoped ==
    [][\A r \in Runs :
          (runs[r].status = "RUNNING" /\ runs'[r] = runs[r])
             => \A f \in files :
                   f.stamp = r => /\ f \in files'
                                  /\ f \in tempFilesCreated => f \in tempFilesCreated']_vars

\* the completion report the server answered in this step, if any
Reported == IF response' # response THEN {response'[1]} ELSE {}

SourceName(req) ==
    IF req.op = "/translate/upload" THEN req.file.originalname
    ELSE IF req.body.fileName # Undefined THEN req.body.fileName
    ELSE LastSegment(IF URLpathname(req.body.videoUrl) # Undefined
                       THEN URLpathname(req.body.videoUrl) ELSE req.body.videoUrl)

\* C24: every accepted start request starts a run under an ID that no run had
\* before, of the form {slug}-{targetLanguage}-{uuid}, whose slug is the source
\* file name without its extension, lower-cased (characters an ID cannot carry
\* written as "-"); the response names that ID and the run's workflow input
\* carries it, so that the artifact directory of the run is named after it.
C24_RunId ==
    [][(request'.op \in {"/translate", "/translate/upload"} /\ response'[1].status = 201) =>
          LET id == response'[1].body.workflowId IN
          /\ id \notin DOMAIN runs
          /\ DOMAIN runs' = DOMAIN runs \cup {id}
          /\ \E uuid \in UUIDs :
                id = toLowerCase(Sanitize(StripExtension(SourceName(request')))) \o <<"-">>
                       \o targetLang(request'.body.targetLanguage) \o <<"-">> \o uuid
          /\ runs'[id].input.workflowId = id
          /\ artifactsDir(runs'[id].input) = id]_vars

\* C24 for URL submissions only
C24_UrlRunId ==
    [][(request'.op = "/translate" /\ response'[1].status = 201) =>
          LET id == response'[1].body.workflowId IN
          /\ id \notin DOMAIN runs
          /\ DOMAIN runs' = DOMAIN runs \cup {id}
          /\ \E uuid \in UUIDs :
                id = toLowerCase(Sanitize(StripExtension(SourceName(request')))) \o <<"-">>
                       \o targetLang(request'.body.targetLanguage) \o <<"-">> \o uuid
          /\ runs'[id].input.workflowId = id
          /\ artifactsDir(runs'[id].input) = id]_vars

\* a start request without the input a translation needs
InvalidStart(req) ==
    \/ /\ req.op = "/translate"
       /\ \/ req.body.videoUrl \in {Undefined, <<>>}
          \/ req.body.targetLanguage \in {Undefined, <<>>}
    \/ /\ req.op = "/translate/upload"
       /\ \/ req.file = NoFile
          \/ req.body.targetLanguage \in {Undefined, <<>>}

\* C25: a start request with a missing or empty videoUrl or targetLanguage, or
\* an upload request without a file, is answered with one client-error
\* response; the service is not called, no run is started and no activity
\* is invoked.
C25_InvalidInputRejected ==
    [][InvalidStart(request') =>
          /\ Len(response') = 1
          /\ response'[1].status \in 400..499
          /\ reply' = NoReply
          /\ runs' = runs
          /\ calls' = calls /\ scheduled' = scheduled]_vars

\* an upload request without a file was rejected after an earlier request had
\* started a run
C25_Witness ==
    /\ request.op = "/translate/upload"
    /\ request.file = NoFile
    /\ request.body.targetLanguage \in Languages
    /\ response[1].status = 400
    /\ runs # <<>>

\* a request with an empty videoUrl was rejected
C25_WitnessEmpty ==
    /\ request.op = "/translate"
    /\ request.body.videoUrl = <<>>
    /\ request.body.targetLanguage \in Languages
    /\ response[1].status = 400

\* C26: getTranslationStatus maps what the Temporal client ends with to one
\* outcome, in this order: a status is returned as it is; no status, or an
\* error whose message contains 'not found' or 'NOT_FOUND', is a
\* WorkflowNotFoundException; otherwise an error whose message contains
\* 'connection' or 'UNAVAILABLE' is a TemporalConnectionException; any other
\* error is a WorkflowException.
C26_StatusErrorMapping ==
    request.op = "/translate/:workflowId" =>
        LET status == request.rpc.status
            err == request.rpc.err
        IN /\ reply.op = "status" /\ reply.id = request.id
           /\ IF err = NoError /\ status # Null
                THEN /\ reply.outcome = "ok"
                     /\ reply.status = status.status /\ reply.result = status.result
                     /\ response[1].status = 200
                ELSE /\ reply.status = "none"
                     /\ reply.outcome =
                          IF err = NoError \/ Includes(err, "not found") \/ Includes(err, "NOT_FOUND")
                            THEN "WorkflowNotFoundException"
                          ELSE IF Includes(err, "connection") \/ Includes(err, "UNAVAILABLE")
                            THEN "TemporalConnectionException"
                          ELSE "WorkflowException"
                     /\ response[1].body.error =
                          TranslatorException(reply.outcome).response.error

\* the client failed with a message that contains both 'connection' and
\* 'not found', and the caller got a WorkflowNotFoundException
C26_Witness ==
    /\ request.op = "/translate/:workflowId"
    /\ request.rpc.err = "connection lost: namespace not found"
    /\ reply.outcome = "WorkflowNotFoundException"
    /\ response[1].status = 404

\* the client resolved with no status
C26_WitnessNull ==
    /\ request.op = "/translate/:workflowId"
    /\ request.rpc = [status |-> Null, err |-> NoError]
    /\ request.id \in DOMAIN runs
    /\ reply.outcome = "WorkflowNotFoundException"

\* C27: startTranslation returns what the Temporal client's start call
\* resolved with, unchanged; when that call fails, the caller gets a
\* TemporalConnectionException if the message contains 'connection' or
\* 'UNAVAILABLE' and a WorkflowException otherwise, never the client's error.
C27_StartErrorMapping ==
    (request.op \in {"/translate", "/translate/upload"} /\ reply # NoReply) =>
        LET err == request.rpc.err IN
        /\ reply.op = "start" /\ reply.err = err
        /\ IF err = NoError
             THEN /\ reply.outcome = "ok"
                  /\ reply.id \in DOMAIN runs
                  /\ runs[reply.id].input.workflowId = reply.id
                  /\ response = <<[status |-> 201,
                                   body |-> [workflowId |-> reply.id, status |-> "started"]]>>
             ELSE /\ reply.outcome =
                       IF Includes(err, "connection") \/ Includes(err, "UNAVAILABLE")
                         THEN "TemporalConnectionException" ELSE "WorkflowException"
                  /\ reply.id = Undefined
                  /\ response[1].status = TranslatorException(reply.outcome).status
                  /\ response[1].body.error = TranslatorException(reply.outcome).response.error

\* the start call failed with UNAVAILABLE and the caller got a
\* TemporalConnectionException, answered with 503
C27_Witness ==
    /\ request.op = "/translate"
    /\ request.rpc.err = "UNAVAILABLE: service unavailable"
    /\ reply.outcome = "TemporalConnectionException"
    /\ response[1].status = 503

C30_WitnessEmptyHeader ==
    /\ request.op # "none"
    /\ request.requestId = ""
    /\ response[1].body.requestId = Absent

\* the number of failures a sequence of call outcomes ends with
TrailingFailures(outcomes) ==
    Cardinality({i \in 1..Len(outcomes) : \A j \in i..Len(outcomes) : outcomes[j] # "ok"})

\* The consecutive failed calls of the transcription API the worker has seen
\* last: those of the attempt under way, preceded by three for every attempt
\* before it that gave up on transient errors.
ConsecutiveFailures ==
    LET before == retryAttempts * TrailingFailures(
                      [i \in 1..Len(log[transcribeAudio]) |->
                          IF log[transcribeAudio][i] = "transient" THEN "failed" ELSE "ok"])
    IN IF transcribeAudio \notin running THEN before
       ELSE IF TrailingFailures(apiLog) = Len(apiLog) THEN before + Len(apiLog)
       ELSE TrailingFailures(apiLog)

\* a threshold the failures of one run can exceed
BreakerThreshold == MaxFaults - 1

\* C28: once more than BreakerThreshold calls of the transcription API have
\* failed in a row, the worker makes no further call of it, and an attempt
\* then invoked ends with a 'dependency unavailable' error.
C28_CircuitBreaker ==
    [][ConsecutiveFailures > BreakerThreshold =>
          /\ Len(apiLog') <= Len(apiLog)
          /\ log'[transcribeAudio] # log[transcribeAudio] =>
                log'[transcribeAudio][Len(log'[transcribeAudio])] = "unavailable"]_vars

\* the k-th smallest element of a set of numbers
Nth(S, k) == CHOOSE x \in S : Cardinality({y \in S : y <= x}) = k

\* the blocks of a subtitle file: its maximal runs of lines that are not empty
Blocks(lines) ==
    LET starts == {i \in 1..Len(lines) : lines[i] # <<>> /\ (i = 1 \/ lines[i - 1] = <<>>)}
        EndOf(i) == Max({j \in i..Len(lines) : \A k \in i..j : lines[k] # <<>>})
    IN [k \in 1..Cardinality(starts) |-> SubSeq(lines, Nth(starts, k), EndOf(Nth(starts, k)))]

\* a timing line "start --> end" read back: its two time stamps, each as the
\* digits before the millisecond separator, the separator and the milliseconds
Timing(line) ==
    LET gt == Min(Positions(line, ">"))
        Stamp(str) == [whole |-> SubSeq(str, 1, Len(str) - 4), separator |-> str[Len(str) - 3],
                       millis |-> SubSeq(str, Len(str) - 2, Len(str))]
    IN [start |-> Stamp(SubSeq(line, 1, gt - 4)), end |-> Stamp(SubSeq(line, gt + 2, Len(line)))]

\* the cues of an SRT file: index line, timing line, text lines
SrtCues(lines) ==
    [k \in 1..Len(Blocks(lines)) |->
        LET b == Blocks(lines)[k] IN
        [index |-> b[1], timing |-> Timing(b[2]), text |-> SubSeq(b, 3, Len(b))]]

\* the cues of a VTT file: after the header block, timing line and text lines
VttCues(lines) ==
    [k \in 1..(Len(Blocks(lines)) - 1) |->
        LET b == Blocks(lines)[k + 1] IN
        [timing |-> Timing(b[1]), text |-> SubSeq(b, 2, Len(b))]]

\* C29: the SRT and the VTT content one generateSubtitles call returns have
\* the same number of cues, and their i-th cues have the same start time, end
\* time and text; the SRT cue carries the index i and "," before the
\* milliseconds, the VTT cue "." and the VTT content starts with WEBVTT.
C29_SameCues ==
    request.op = "generateSubtitles" =>
        LET srt == SrtCues(response[1].srtContent)
            vtt == VttCues(response[1].vttContent)
        IN /\ Blocks(response[1].vttContent)[1] = <<<<"W", "E", "B", "V", "T", "T">>>>
           /\ Len(srt) = Len(vtt)
           /\ \A i \in 1..Len(srt) :
                 /\ srt[i].index = toString(i)
                 /\ srt[i].text = vtt[i].text
                 /\ \A at \in {"start", "end"} :
                       /\ srt[i].timing[at].whole = vtt[i].timing[at].whole
                       /\ srt[i].timing[at].millis = vtt[i].timing[at].millis
                       /\ srt[i].timing[at].separator = ","
                       /\ vtt[i].timing[at].separator = "."

\* GPT answered with other segments than Whisper's, fewer of them, and both
\* files have its two cues
C29_Witness ==
    /\ request.op = "generateSubtitles"
    /\ Len(request.segments) = 1 /\ Len(request.parsed) = 2
    /\ request.translatedText # ""
    /\ request.parsed # NoSegments
    /\ Len(SrtCues(response[1].srtContent)) = 2
    /\ Len(VttCues(response[1].vttContent)) = 2
    /\ SrtCues(response[1].srtContent)[2].timing.start.whole = <<"0", "0", ":", "0", "0", ":", "5", "9">>

\* the stage whose step and percent the workflow's progress shows (0: none)
ShownStage ==
    IF \E a \in Stages : progress.percentComplete = CumulativePercent(a)
      THEN CHOOSE a \in Stages : progress.percentComplete = CumulativePercent(a)
      ELSE 0

\* C31 as stated: the progress shows the step and percent of a stage only
\* when that stage's activity has completed and its result is recorded.
C31_PublishedOnSuccess ==
    ShownStage # 0 => recorded[ShownStage] # None

\* C31 (amended): the progress shows the step and percent of stage N only when
\* the run has reached stage N: every stage before N that the run executes
\* has completed and has its result recorded, and stage N itself has been
\* scheduled, or has a recorded result or failure.
C31_PublishedOnStart ==
    ShownStage # 0 =>
        /\ \A b \in 1..(ShownStage - 1) : InPipeline(b) => recorded[b] # None
        /\ InPipeline(ShownStage)
        /\ \/ ShownStage \in scheduled
           \/ recorded[ShownStage] # None
           \/ actFailed = ShownStage
           \/ cancelAt = ShownStage

\* the progress shows step 3 at 40 percent while translateText is executing
\* and has no recorded result
C31_Witness ==
    /\ ShownStage = translateText
    /\ progress.currentStep = 3 /\ progress.status = "running"
    /\ translateText \in running
    /\ recorded[translateText] = None
    /\ recorded[transcribeAudio] # None

\* Whisper API calls the run has made for certain: three for every
\* transcribeAudio attempt that gave up on transient errors, and those of the
\* attempt under way.
WhisperCallsMade ==
    retryAttempts * Cardinality({i \in 1..Len(log[transcribeAudio]) :
                                    log[transcribeAudio][i] = "transient"})
      + (IF transcribeAudio \in running THEN Len(apiLog) ELSE 0)

\* C32: the run makes a Whisper API call only while it has made fewer than
\* three: the calls of one run never number more than 3.
C32_WhisperCallsBounded ==
    [][Len(apiLog') > Len(apiLog) => WhisperCallsMade < retryAttempts]_vars


ConnectionCodes == {"ECONNRESET", "ETIMEDOUT", "ENOTFOUND"}

\* C33: within one invocation of transcribeAudio a further Whisper call is made
\* only after a call that failed with ECONNRESET, ETIMEDOUT or ENOTFOUND.
C33_RetryOnlyConnectionErrors ==
    [][Len(apiLog) > 0 /\ Len(apiLog') > Len(apiLog)
          => apiLog[Len(apiLog)] \in ConnectionCodes]_vars

\* ------------------------------------------------- retryWithBackoff alone
\* One call of retryWithBackoff(fn, { attempts, delayMs }): `request` holds the
\* options, `response` the calls of fn made so far, the delays waited between
\* them and how the call ended.
MaxTries == 4

\* delayMs: the default, and the one transcribeAudio passes
DelayOptions == {1000, 2000}

\* Faulty variant: the delay grows linearly
backoffMsLinear(delayMs, i) == delayMs * (i + 1)

\* const backoffMs = delayMs * Math.pow(2, i)
backoffMs(delayMs, i) == delayMs * 2^i

\* the delays setTimeout can be given after failed call i
BackoffDelays(delayMs, i) == {backoffMs(delayMs, i)}

\* the body of the for loop after call i of fn ended with outcome o
LoopStep(attempts, i, o) ==
    IF o = "ok" THEN "return"
    ELSE IF i = attempts - 1 THEN "throw"                           \* isLastAttempt
    ELSE IF o \notin ConnectionCodes /\ o = "4xx" THEN "throw"
    ELSE "retry"

\* retryWithBackoff is called; with attempts 0 the loop body never runs
CallWithRetry(attempts, delayMs) ==
    /\ request = NoRequest
    /\ request' = [op |-> "retryWithBackoff", attempts |-> attempts, delayMs |-> delayMs]
    /\ response' = <<[state |-> IF attempts = 0 THEN "thrown" ELSE "calling",
                      outcomes |-> <<>>, waited |-> <<>>, thrown |-> Absent]>>
    /\ UNCHANGED <<engineVars, reply, runs>>

\* one iteration of the loop: fn is called and ends with outcome o
Iteration(o) ==
    /\ request.op = "retryWithBackoff"
    /\ response[1].state = "calling"
    /\ LET r == response[1]
           i == Len(r.outcomes)
           d == LoopStep(request.attempts, i, o)
       IN \E w \in BackoffDelays(request.delayMs, i) :
            response' = <<[state |-> CASE d = "return" -> "returned"
                                       [] d = "throw" -> "thrown"
                                       [] OTHER -> "calling",
                           outcomes |-> Append(r.outcomes, o),
                           waited |-> IF d = "retry" THEN Append(r.waited, w) ELSE r.waited,
                           thrown |-> IF d = "throw" THEN o ELSE Absent]>>
    /\ UNCHANGED <<engineVars, request, reply, runs>>

BackoffNext ==
    \/ \E attempts \in 0..MaxTries, delayMs \in DelayOptions : CallWithRetry(attempts, delayMs)
    \/ \E o \in ApiOutcomes \cup {"ETIMEDOUT"} : Iteration(o)

BackoffSpec == Init /\ [][BackoffNext]_vars

InRetryLoop == request.op = "retryWithBackoff"

\* C34 as stated: a delay that was waited was one of several the loop could
\* have waited after that attempt (jitter).
C34_JitteredDelay ==
    (InRetryLoop /\ response[1].waited # <<>>)
        => Cardinality(BackoffDelays(request.delayMs, Len(response[1].waited) - 1)) > 1

\* C34: the delay waited after failed attempt i (0-based) is exactly
\* delayMs * 2^i, with neither cap nor jitter; no delay is waited after the
\* call that ends the loop; fn is never called more often than `attempts`.
C34_BackoffSchedule ==
    InRetryLoop =>
        LET r == response[1] IN
        /\ \A j \in 1..Len(r.waited) : r.waited[j] = request.delayMs * 2^(j - 1)
        /\ \A j \in 2..Len(r.waited) : r.waited[j] = 2 * r.waited[j - 1]
        /\ Len(r.outcomes) <= request.attempts
        /\ Len(r.waited) = IF r.state = "calling" \/ r.outcomes = <<>>
                             THEN Len(r.outcomes) ELSE Len(r.outcomes) - 1

C34_Witness ==
    /\ InRetryLoop
    /\ request.attempts = 4 /\ request.delayMs = 2000
    /\ response[1].state = "thrown"
    /\ response[1].outcomes = <<"ECONNRESET", "ETIMEDOUT", "5xx", "ECONNRESET">>
    /\ response[1].waited = <<2000, 4000, 8000>>

\* C35: a step in which the operation of a stage activity fails never records
\* a result for a stage: the failure is not reported as the stage's success.
C35_NoSilentSwallowing ==
    [][faults' > faults => \A a \in Stages : recorded'[a] = recorded[a]]_vars

StepsInRange(prog) ==
    /\ 0 <= prog.currentStep /\ prog.currentStep <= prog.totalSteps
    /\ prog.status = "completed" => prog.currentStep = prog.totalSteps

\* C36: every progress snapshot the workflow holds has 0 <= currentStep <=
\* totalSteps, and currentStep = totalSteps when its status is "completed";
\* from one snapshot to the next totalSteps does not change and currentStep
\* does not decrease.
C36_ProgressInvariants ==
    /\ StepsInRange(progress)
    /\ [][/\ StepsInRange(progress')
          /\ progress'.totalSteps = progress.totalSteps
          /\ progress'.currentStep >= progress.currentStep]_vars

C36_Witness ==
    /\ progress.status = "completed" /\ wfStatus = "COMPLETED"
    /\ progress.currentStep = 6 /\ progress.totalSteps = 6
    /\ crashes = 1

StagesExecuted == {a \in Stages : recorded[a] # None}

\* C37: in a COMPLETED run the totalSteps of the progress is the number of
\* stage activities the run executed, and the step reported before the final
\* update is the last of them.
C37_TotalStepsMatchesStages ==
    [][wfStatus' = "COMPLETED" /\ wfStatus # "COMPLETED"
          => /\ progress'.totalSteps = Cardinality(StagesExecuted')
             /\ progress.currentStep = Cardinality(StagesExecuted')]_vars

\* ------------------------------------------------- temp files as paths
\* The worker's temp-file list with real paths: `files` holds the paths that
\* exist, `tempFilesCreated` the tracked paths and `response` the paths
\* unlinked so far.  The stages succeed here; their inputs are local paths
\* and URLs.
TEMP_DIR == <<"/", "t", "m", "p", "/", "v", "i", "d", "e", "o", "-", "t", "r", "a", "n", "s", "l", "a", "t", "o", "r">>

Tmp == <<"/", "t", "m", "p">>

\* String.prototype.startsWith
startsWith(s, prefix) == Len(s) >= Len(prefix) /\ SubSeq(s, 1, Len(prefix)) = prefix

\* the file lies in the directory or below it
Under(file, dir) == startsWith(file, dir \o <<"/">>)

SUPPORTED_VIDEO_EXTENSIONS == {<<".", "m", "p", "4">>, <<".", "m", "o", "v">>}
SUPPORTED_AUDIO_EXTENSIONS == {<<".", "m", "p", "3">>, <<".", "w", "a", "v">>}

getFileExtension(urlOrPath) ==
    LET pathname == URLpathname(urlOrPath) IN
    toLowerCase(extname(LastSegment(IF pathname # Undefined THEN pathname ELSE urlOrPath)))

isVideoFile(urlOrPath) == getFileExtension(urlOrPath) \in SUPPORTED_VIDEO_EXTENSIONS
isAudioFile(urlOrPath) == getFileExtension(urlOrPath) \in SUPPORTED_AUDIO_EXTENSIONS

\* processMediaInput(input) with uuidv4() = uuid, download and ffmpeg succeeding
processMediaInput(in, uuid) ==
    LET isUrl == URLpathname(in) # Undefined
        ext == getFileExtension(in)
        localPath == IF isUrl
                       THEN TEMP_DIR \o <<"/", "d", "o", "w", "n", "l", "o", "a", "d", "-">> \o uuid \o (IF ext # <<>> THEN ext ELSE <<".", "m", "p", "4">>)
                       ELSE in
        audioPath == TEMP_DIR \o <<"/", "a", "u", "d", "i", "o", "-">> \o uuid \o <<".", "m", "p", "3">>
    IN IF ~isVideoFile(in) /\ isAudioFile(in)
         THEN [audioPath |-> localPath, originalVideoPath |-> Undefined, exist |-> {localPath}]
         ELSE [audioPath |-> audioPath, originalVideoPath |-> localPath,
               exist |-> {localPath, audioPath}]

\* videoUrl values: an upload, a local file beside TEMP_DIR, a local file in
\* /tmp, a local file elsewhere, and a URL
MediaInputs ==
    {<<"/", "t", "m", "p", "/", "v", "i", "d", "e", "o", "-", "t", "r", "a", "n", "s", "l", "a", "t", "o", "r", "/", "u", "p", "l", "o", "a", "d", "s", "/", "a", ".", "m", "p", "4">>,
     <<"/", "t", "m", "p", "/", "v", "i", "d", "e", "o", "-", "t", "r", "a", "n", "s", "l", "a", "t", "o", "r", "-", "o", "l", "d", "/", "a", ".", "m", "p", "4">>,
     <<"/", "t", "m", "p", "/", "b", ".", "m", "p", "3">>,
     <<"/", "h", "o", "m", "e", "/", "c", ".", "M", "P", "4">>,
     <<"h", "t", "t", "p", "s", ":", "/", "/", "h", "/", "d", ".", "m", "o", "v">>}

DeletedPaths == IF response = <<>> THEN {} ELSE response[1]

pathFrame == <<input, wfStatus, recorded, actFailed, scheduled, args, attempt, calls,
               running, apiLog, log, workerUp, wfLoaded, pendingTask, pc, progress,
               result, crashes, faults, cancelAt, lastSnap, stale, reply, runs>>

\* extractAudio(videoUrl): the result's paths are tracked when they start with "/tmp"
ExtractAudioPath(videoUrl, uuid) ==
    LET r == processMediaInput(videoUrl, uuid)
        paths == {r.audioPath} \cup (IF r.originalVideoPath # Undefined
                                       THEN {r.originalVideoPath} ELSE {})
    IN /\ files' = files \cup r.exist
       /\ tempFilesCreated' = tempFilesCreated \cup {f \in paths : startsWith(f, Tmp)}
       /\ request' = [op |-> "extractAudio", videoUrl |-> videoUrl]
       /\ UNCHANGED <<response, pathFrame>>

\* cleanupTempFilesActivity(): cleanupTempFiles(tempFilesCreated) unlinks the
\* tracked files that start with TEMP_DIR and exist (~ok: unlinkSync threw,
\* which is caught); then tempFilesCreated.length = 0
CleanupPaths(ok) ==
    LET unlinked == IF ok THEN {f \in tempFilesCreated : startsWith(f, TEMP_DIR) /\ f \in files}
                          ELSE {}
    IN /\ tempFilesCreated # {}
       /\ files' = files \ unlinked
       /\ tempFilesCreated' = {}
       /\ response' = <<DeletedPaths \cup unlinked>>
       /\ request' = [op |-> "cleanupTempFilesActivity"]
       /\ UNCHANGED pathFrame

PathNext ==
    \/ \E videoUrl \in MediaInputs : ExtractAudioPath(videoUrl, <<"1">>)
    \/ \E ok \in BOOLEAN : CleanupPaths(ok)

PathSpec == Init /\ [][PathNext]_vars

\* C38: every file a cleanup has deleted lies under TEMP_DIR, and after a
\* cleanup invocation the tracked list is empty.
C38_DeletesOnlyUnderTempDir ==
    /\ \A f \in DeletedPaths : Under(f, TEMP_DIR)
    /\ request.op = "cleanupTempFilesActivity" => tempFilesCreated = {}

\* ------------------------------------ TemporalClientService: initialisation
\* One Node process with the provider instances Nest may create.  `response`
\* holds the state of the class and of its instances; Nest awaits one
\* lifecycle hook at a time, so at most one onModuleInit call is in flight.
MaxInits == 3

Instances == {1, 2}

Idle == [instance |-> 0, at |-> "idle"]

\* private static started = false; private client; private worker = null
Constructed ==
    [started |-> FALSE,
     client |-> [i \in Instances |-> "undefined"],
     worker |-> [i \in Instances |-> "null"],
     call |-> Idle,                                   \* the onModuleInit call in flight
     returned |-> [i \in Instances |-> "never"],      \* how the last call on i ended
     connections |-> 0, workers |-> 0, inits |-> 0]

Service == IF response = <<>> THEN Constructed ELSE response[1]

\* getClient(): throws unless this.client is set
getClient(i) ==
    IF Service.client[i] = "undefined" THEN "Error: Temporal client is not initialized."
    ELSE Service.client[i]

serviceFrame == <<engineVars, reply, runs>>

\* if (TemporalClientService.started)
AlreadyStarted == Service.started

\* onModuleInit() is called on instance i: it returns at once when the class
\* is marked started, else marks it and goes on to Connection.connect
OnModuleInit(i) ==
    /\ Service.call = Idle
    /\ Service.inits < MaxInits
    /\ response' = <<IF AlreadyStarted
                       THEN [Service EXCEPT !.returned[i] = "ok", !.inits = @ + 1]
                       ELSE [Service EXCEPT !.started = TRUE, !.inits = @ + 1,
                                            !.call = [instance |-> i, at |-> "connect"]]>>
    /\ request' = [op |-> "onModuleInit", instance |-> i]
    /\ UNCHANGED serviceFrame

\* await Connection.connect(...); this.client = new WorkflowClient(...)
Connect(ok) ==
    /\ Service.call.at = "connect"
    /\ LET i == Service.call.instance IN
       response' = <<IF ok
                       THEN [Service EXCEPT !.connections = @ + 1, !.client[i] = "WorkflowClient",
                                            !.call.at = "getSystemInfo"]
                       ELSE [Service EXCEPT !.call = Idle, !.returned[i] = "threw"]>>
    /\ UNCHANGED <<request, serviceFrame>>

\* await connection.workflowService.getSystemInfo({})
GetSystemInfo(ok) ==
    /\ Service.call.at = "getSystemInfo"
    /\ LET i == Service.call.instance IN
       response' = <<IF ok
                       THEN [Service EXCEPT !.call.at = "startWorker"]
                       ELSE [Service EXCEPT !.call = Idle, !.returned[i] = "threw"]>>
    /\ UNCHANGED <<request, serviceFrame>>

\* await this.startWorker(namespace): the worker is created, or the error
\* (no connection, no workflows directory) is logged and swallowed
StartWorker(created) ==
    /\ Service.call.at = "startWorker"
    /\ LET i == Service.call.instance IN
       response' = <<IF created
                       THEN [Service EXCEPT !.workers = @ + 1, !.worker[i] = "Worker",
                                            !.call = Idle, !.returned[i] = "ok"]
                       ELSE [Service EXCEPT !.call = Idle, !.returned[i] = "ok"]>>
    /\ UNCHANGED <<request, serviceFrame>>

\* a caller asks instance i for the client
GetClient(i) ==
    /\ request' = [op |-> "getClient", instance |-> i, result |-> getClient(i)]
    /\ response' = <<Service>>
    /\ UNCHANGED serviceFrame

ServiceNext ==
    \/ \E i \in Instances : OnModuleInit(i)
    \/ \E ok \in BOOLEAN : Connect(ok)
    \/ \E ok \in BOOLEAN : GetSystemInfo(ok)
    \/ \E created \in BOOLEAN : StartWorker(created)
    \/ \E i \in Instances : GetClient(i)

ServiceSpec == Init /\ [][ServiceNext]_vars

\* C39: at most one connection and one worker are created, and after an
\* onModuleInit call on an instance returned without throwing, getClient()
\* on that instance returns a client.
C39_InitialisedAfterInit ==
    /\ Service.connections <= 1 /\ Service.workers <= 1
    /\ \A i \in Instances :
         (Service.returned[i] = "ok" /\ Service.call = Idle) => getClient(i) = "WorkflowClient"

\* ------------------------------------------------ CLI: waitForCompletion
\* The CLI polls the progress of a workflow ID every POLL_INTERVAL_MS until
\* the snapshot's status is "completed" (break, exit code 0) or "failed"
\* (process.exit(1)).  `reply` holds the ID and how the loop stands.

\* queryProgress(workflowId): the snapshot of queryWorkflowProgress, or the
\* CLI's own fallback when the request fails; it has status "running" too
queryProgress(id, err) ==
    IF id # "run" THEN queryWorkflowProgress("workflow not found")
    ELSE queryWorkflowProgress(err)

\* the body of the while (true) loop after one poll
waitForCompletion(snap) ==
    CASE snap.status = "completed" -> "exit 0"
      [] snap.status = "failed" -> "exit 1"
      [] OTHER -> "polling"

\* the CLI starts to wait for workflow `id`, before the run's first workflow task
StartWait(id) ==
    /\ reply = NoReply
    /\ ~wfLoaded /\ crashes = 0
    /\ reply' = [NoReply EXCEPT !.op = "waitForCompletion", !.id = id, !.outcome = "polling"]
    /\ UNCHANGED <<input, wfStatus, recorded, actFailed, scheduled, args, attempt, calls,
                   running, apiLog, log, workerUp, wfLoaded, pendingTask, pc, progress,
                   result, crashes, faults, cancelAt, fsVars, lastSnap, otherVars>>

\* one iteration of the loop; err: the error of the request or of the
\* Temporal client (NoError: the snapshot arrives)
Poll(err) ==
    /\ reply.op = "waitForCompletion" /\ reply.outcome = "polling"
    /\ (reply.id = "run" /\ err = NoError /\ wfStatus \notin {"COMPLETED", "TIMED_OUT", "CANCELLED"})
          => (workerUp /\ wfLoaded /\ ~pendingTask)
    /\ LET snap == queryProgress(reply.id, err) IN
       reply' = [reply EXCEPT !.outcome = waitForCompletion(snap)]
    /\ UNCHANGED <<input, wfStatus, recorded, actFailed, scheduled, args, attempt, calls,
                   running, apiLog, log, workerUp, wfLoaded, pendingTask, pc, progress,
                   result, crashes, faults, cancelAt, fsVars, lastSnap, otherVars>>

NextWait ==
    \/ Next
    \/ \E id \in WorkflowIds : StartWait(id)
    \/ \E err \in {NoError, "deadline exceeded"} : Poll(err)

\* The engine's scheduling; the CLI keeps polling, and its requests do not
\* fail for ever.
WaitSpec ==
    /\ Init /\ [][NextWait]_vars
    /\ Fairness
    /\ WF_vars(\E err \in {NoError, "deadline exceeded"} : Poll(err))
    /\ SF_vars(Poll(NoError))

Waiting == reply.op = "waitForCompletion"

\* C40: once the workflow waited for is closed, or when its ID is unknown,
\* the loop eventually exits; it exits with success only when the workflow
\* completed.
C40_WaitTerminates ==
    /\ (Waiting /\ (reply.id = "unknown" \/ wfStatus # "RUNNING")) ~> (reply.outcome # "polling")
    /\ [](Waiting /\ reply.outcome = "exit 0" => reply.id = "run" /\ wfStatus = "COMPLETED")

====
